---- MODULE Spec2Model ----
(***************************************************************************)
(* A model of zthread.h (z-libs): the POSIX backend of the primitive       *)
(* facade (zthread__create_ptr, zthread__proxy_entry, zthread_join,        *)
(* zthread_detach, the mutex and condition-variable functions), the C++   *)
(* wrapper z_thread::thread                                                *)
(* (constructors, operator=, join, detach, destructor, proxy_thunk) and    *)
(* the example programs that exercise them.                                *)
(*                                                                         *)
(* Four state machines share the module, each over its own variables:      *)
(*   Spec       thread handles, envelopes and spawned threads              *)
(*   SpecBank   examples/example_1.c: N threads deposit under one mutex    *)
(*   SpecSync   threads using one mutex and one condition variable         *)
(*              (SpecSyncFair: under fair scheduling; SpecMisuse: with     *)
(*              the calls that break the contract of the mutex)            *)
(*   SpecQueue  examples/cpp/example_2.cpp: a producer, a consumer and a   *)
(*              WorkQueue (SpecQueueFair: under fair scheduling)           *)
(***************************************************************************)
EXTENDS Integers, Sequences, FiniteSets, TLC

(***************************************************************************)
(* Bounds of the model.                                                    *)
(***************************************************************************)
MaxBankThreads == 2
MaxDeposits == 2
NSync == 3
NHandles == 2
MaxSpawns == 1
\* the capacity of the job queue (example_3.c: #define MAX_JOBS 5) and the
\* number of jobs main pushes (example_3.c: i <= 10), more than the capacity
MAX_JOBS == 2
NJobs == 3
\* zthread_sleep is tried with every argument from 0 to MaxSleepMs
MaxSleepMs == 60

(***************************************************************************)
(* Return codes (zcommon.h).                                               *)
(***************************************************************************)
Z_OK == 0
Z_ERR == -1
Z_ENOMEM == -2

(***************************************************************************)
(* The last item main pushes in examples/cpp/example_2.cpp.                *)
(***************************************************************************)
LastItem == 5

(***************************************************************************)
(* The value the producer stores in examples/c/example_2.c.                *)
(***************************************************************************)
HandoffValue == 42

VARIABLES
    \* ---- SpecBank (examples/example_1.c)
    nbank,          \* N: the number of threads main spawns
    balance,        \* my_account.balance
    bankLock,       \* my_account.lock: TRUE while the pthread mutex is locked
    bpc,            \* position of each deposit_task thread
    btmp,           \* the value each thread read from balance (balance += 1)
    bi,             \* the loop counter i of each deposit_task thread
    bmain,          \* position of main: number of threads created, then joined
    \* ---- SpecSync (the mutex and condition-variable functions)
    mtx,            \* TRUE while the pthread mutex is locked
    waiters,        \* threads blocked on the condition variable
    spc,            \* position of each thread
    sfrom,          \* how each holder got the mutex: "lock" or "wait"
    pending,        \* threads that were blocked in zcond_wait when a broadcast
                    \* was made and have not returned from it since
    slast,          \* the last call, when it was zcond_signal or
                    \* zcond_broadcast, and the waiters it found
    smisuse,        \* the last call that broke the contract of the mutex
    \* ---- Spec (z_thread::thread, zthread__create_ptr, zthread__proxy_entry)
    hstate,         \* each handle object: "none", "live" or "dead"
    inner,          \* thread::inner, the native identifier (0 is the null one)
    joinable,       \* thread::joinable
    movedFrom,      \* the handle was the source of a move and has not been
                    \* the destination of a move assignment since
    mpc,            \* position of the thread that owns the handles
    cur,            \* the operation in progress on that thread
    nspawn,         \* number of spawns begun
    env,            \* per spawn: the impl_type object and the zthread__wrap
    tpc,            \* per spawn: position of the native thread's proxy
    invoked,        \* per spawn: number of invocations of the callable
    effect,         \* per spawn: the write the callable performs
    rc,             \* per spawn: what zthread__create_ptr returned
    nativeJoins,    \* per native thread: calls of pthread_join
    nativeDetaches, \* per native thread: calls of pthread_detach
    badNative,      \* calls of pthread_join/pthread_detach on the null identifier
    last,           \* the last operation called on a handle
    \* ---- SpecQueue (examples/cpp/example_2.cpp)
    items,          \* WorkQueue::items
    finished,       \* WorkQueue::finished
    qmtx,           \* WorkQueue::mtx: the thread that holds it, or "none"
    qpc,            \* position of main and of the worker
    pi,             \* the loop counter i of main
    job,            \* the worker's variable job
    received,       \* the jobs the worker has processed, in order
    guard,          \* per thread, its lock_guard: "none", "alive" (constructed)
                    \* or "ended" (scope left), and the unlocks it has made
    \* ---- SpecHandoff (examples/c/example_2.c)
    odata,          \* ctx.data
    oready,         \* ctx.is_ready
    omtx,           \* ctx.mutex: TRUE while locked
    oprod,          \* position of the producer
    ocons,          \* position of the consumer
    omain,          \* position of main
    oread,          \* the value the consumer printed (-1: none yet)
    \* ---- SpecJobs (examples/example_3.c)
    jitems,         \* queue.items
    jcount,         \* queue.count
    jhead,          \* queue.head
    jtail,          \* queue.tail
    jdone,          \* queue.done
    jlock,          \* queue.lock: the thread that holds it, or "none"
    jpc,            \* position of main and of the two workers
    ji,             \* the loop counter i of main
    jjob,           \* per worker, its variable job
    jocc,           \* the slots that hold a job not yet taken
    jtaken,         \* the jobs taken, in the order taken
    jlost,          \* the jobs whose slot was written again before they were taken
    \* ---- SpecSleep (zthread_sleep)
    zms,            \* the argument of the last call of zthread_sleep
    zver,           \* the version called: "nanosleep", "usleep" ("none": no call yet)
    zreq            \* what the call asked the operating system for

varsB == <<nbank, balance, bankLock, bpc, btmp, bi, bmain>>
varsS == <<mtx, waiters, spc, sfrom, pending, slast, smisuse>>
varsH == <<hstate, inner, joinable, movedFrom, mpc, cur, nspawn, env, tpc,
           invoked, effect, rc, nativeJoins, nativeDetaches, badNative, last>>
varsQ == <<items, finished, qmtx, qpc, pi, job, received, guard>>
varsO == <<odata, oready, omtx, oprod, ocons, omain, oread>>
varsJ == <<jitems, jcount, jhead, jtail, jdone, jlock, jpc, ji, jjob, jocc, jtaken,
           jlost>>
varsZ == <<zms, zver, zreq>>
vars == <<varsB, varsS, varsH, varsQ, varsO, varsJ, varsZ>>

(***************************************************************************)
(* pthread_mutex_lock, as zmutex_lock calls it: the caller is blocked      *)
(* while the mutex is locked.                                              *)
(***************************************************************************)
zmutex_lock_never_blocks(locked) == TRUE

zmutex_lock(locked) == ~locked

zmutex_unlock(locked) == FALSE

(***************************************************************************)
(* SpecBank: examples/example_1.c.  main creates nbank threads running     *)
(* deposit_task and joins them in order; deposit_task runs MaxDeposits     *)
(* times the body  mutex_lock; balance += 1; mutex_unlock,  where the      *)
(* increment is a read of balance followed by a write of the sum.          *)
(***************************************************************************)
BankThreads == 1..MaxBankThreads

\* the loop body with the unlock moved before the write back
deposit_body_unlock_early == <<"lock", "read", "unlock", "write">>

\* the statements of the loop body of deposit_task, in program order
deposit_body == <<"lock", "read", "write", "unlock">>

\* bpc: -1 not created, 0 at the loop test, 1..4 before that statement of
\* the body, 5 returned
BankStmt(t) == IF bpc[t] \in 1..Len(deposit_body) THEN deposit_body[bpc[t]] ELSE "none"

\* the position after a statement of the body; the last one ends the
\* iteration (i++)
BankAdvance(t) ==
    IF bpc[t] = Len(deposit_body)
    THEN /\ bpc' = [bpc EXCEPT ![t] = 0]
         /\ bi' = [bi EXCEPT ![t] = @ + 1]
    ELSE /\ bpc' = [bpc EXCEPT ![t] = @ + 1]
         /\ bi' = bi

BankInit ==
    /\ nbank \in 0..MaxBankThreads
    /\ balance = 0
    /\ bankLock = FALSE
    /\ bpc = [t \in BankThreads |-> -1]
    /\ btmp = [t \in BankThreads |-> 0]
    /\ bi = [t \in BankThreads |-> 0]
    /\ bmain = [created |-> 0, joined |-> 0]

\* thread_create(&t1, deposit_task, &my_account)
BankCreate ==
    /\ bmain.created < nbank
    /\ bmain' = [bmain EXCEPT !.created = @ + 1]
    /\ bpc' = [bpc EXCEPT ![bmain.created + 1] = 0]
    /\ UNCHANGED <<nbank, balance, bankLock, btmp, bi>>

\* for (int i = 0; i < 100000; i++)
BankLoop(t) ==
    /\ bpc[t] = 0
    /\ bpc' = [bpc EXCEPT ![t] = IF bi[t] < MaxDeposits THEN 1 ELSE 5]
    /\ UNCHANGED <<nbank, balance, bankLock, btmp, bi, bmain>>

\* mutex_lock(&acct->lock)
BankLock(t) ==
    /\ BankStmt(t) = "lock"
    /\ zmutex_lock(bankLock)
    /\ bankLock' = TRUE
    /\ BankAdvance(t)
    /\ UNCHANGED <<nbank, balance, btmp, bmain>>

\* acct->balance += 1: the read
BankRead(t) ==
    /\ BankStmt(t) = "read"
    /\ btmp' = [btmp EXCEPT ![t] = balance]
    /\ BankAdvance(t)
    /\ UNCHANGED <<nbank, balance, bankLock, bmain>>

\* acct->balance += 1: the write
BankWrite(t) ==
    /\ BankStmt(t) = "write"
    /\ balance' = btmp[t] + 1
    /\ BankAdvance(t)
    /\ UNCHANGED <<nbank, bankLock, btmp, bmain>>

\* mutex_unlock(&acct->lock)
BankUnlock(t) ==
    /\ BankStmt(t) = "unlock"
    /\ bankLock' = zmutex_unlock(bankLock)
    /\ BankAdvance(t)
    /\ UNCHANGED <<nbank, balance, btmp, bmain>>

\* thread_join(t1); thread_join(t2): blocked until that thread has returned
BankJoin ==
    /\ bmain.created = nbank
    /\ bmain.joined < nbank
    /\ bpc[bmain.joined + 1] = 5
    /\ bmain' = [bmain EXCEPT !.joined = @ + 1]
    /\ UNCHANGED <<nbank, balance, bankLock, bpc, btmp, bi>>

BankAllJoined == bmain.created = nbank /\ bmain.joined = nbank

NextBank ==
    \/ BankCreate /\ UNCHANGED <<varsS, varsH, varsQ, varsO, varsJ, varsZ>>
    \/ BankJoin /\ UNCHANGED <<varsS, varsH, varsQ, varsO, varsJ, varsZ>>
    \/ \E t \in BankThreads : BankLoop(t) /\ UNCHANGED <<varsS, varsH, varsQ, varsO, varsJ, varsZ>>
    \/ \E t \in BankThreads : BankLock(t) /\ UNCHANGED <<varsS, varsH, varsQ, varsO, varsJ, varsZ>>
    \/ \E t \in BankThreads : BankRead(t) /\ UNCHANGED <<varsS, varsH, varsQ, varsO, varsJ, varsZ>>
    \/ \E t \in BankThreads : BankWrite(t) /\ UNCHANGED <<varsS, varsH, varsQ, varsO, varsJ, varsZ>>
    \/ \E t \in BankThreads : BankUnlock(t) /\ UNCHANGED <<varsS, varsH, varsQ, varsO, varsJ, varsZ>>

(***************************************************************************)
(* SpecSync: NSync threads use one mutex and one condition variable        *)
(* through zmutex_lock, zmutex_unlock, zcond_wait, zcond_signal and        *)
(* zcond_broadcast, each keeping the contract of the call it makes         *)
(* (unlock and wait only by the holder, lock only by a non-holder).        *)
(* spc: "idle" outside, "lock" inside zmutex_lock, "held" between the      *)
(* return of lock (or wait) and the unlock, "wait" blocked on the          *)
(* condition variable, "wake" woken and re-acquiring inside zcond_wait.    *)
(***************************************************************************)
SyncThreads == 1..NSync

\* slast after a call that is neither zcond_signal nor zcond_broadcast
NoCondCall == [op |-> "none", pre |-> {}]

SyncInit ==
    /\ mtx = FALSE
    /\ waiters = {}
    /\ spc = [t \in SyncThreads |-> "idle"]
    /\ sfrom = [t \in SyncThreads |-> "none"]
    /\ pending = {}
    /\ slast = NoCondCall
    /\ smisuse = "none"

\* zmutex_lock is called
SyncCallLock(t) ==
    /\ spc[t] = "idle"
    /\ spc' = [spc EXCEPT ![t] = "lock"]
    /\ slast' = NoCondCall
    /\ UNCHANGED <<mtx, waiters, sfrom, pending, smisuse>>

\* zmutex_lock returns
SyncLock(t) ==
    /\ spc[t] = "lock"
    /\ zmutex_lock(mtx)
    /\ mtx' = TRUE
    /\ spc' = [spc EXCEPT ![t] = "held"]
    /\ sfrom' = [sfrom EXCEPT ![t] = "lock"]
    /\ slast' = NoCondCall
    /\ UNCHANGED <<waiters, pending, smisuse>>

\* zmutex_unlock
SyncUnlock(t) ==
    /\ spc[t] = "held"
    /\ mtx' = zmutex_unlock(mtx)
    /\ spc' = [spc EXCEPT ![t] = "idle"]
    /\ sfrom' = [sfrom EXCEPT ![t] = "none"]
    /\ slast' = NoCondCall
    /\ UNCHANGED <<waiters, pending, smisuse>>

\* the mutex released with the caller not yet among the waiters
zcond_wait_registers_late(ws, t) == ws

\* zcond_wait: pthread_cond_wait puts the caller among the threads blocked
\* on the condition variable as it releases the mutex
zcond_wait_registers(ws, t) == ws \cup {t}

\* zcond_wait is called: pthread_cond_wait releases the mutex and blocks the
\* caller on the condition variable in one step
SyncWait(t) ==
    /\ spc[t] = "held"
    /\ mtx' = FALSE
    /\ waiters' = zcond_wait_registers(waiters, t)
    /\ spc' = [spc EXCEPT ![t] = "wait"]
    /\ sfrom' = [sfrom EXCEPT ![t] = "none"]
    /\ slast' = NoCondCall
    /\ UNCHANGED <<pending, smisuse>>

\* zcond_signal waking every waiter
zcond_signal_wakes_all(ws) == {ws}

\* zcond_signal: pthread_cond_signal unblocks one of the threads blocked on
\* the condition variable, any of them, and none when there is none.  The
\* sets of threads one call may unblock.
zcond_signal(ws) == IF ws = {} THEN {{}} ELSE {{w} : w \in ws}

\* zcond_broadcast waking one waiter only
zcond_broadcast_wakes_one(ws) == IF ws = {} THEN {} ELSE {CHOOSE w \in ws : TRUE}

\* zcond_broadcast: pthread_cond_broadcast unblocks all the threads blocked
\* on the condition variable.  The set of threads the call unblocks.
zcond_broadcast(ws) == ws

\* pthread_cond_wait returning whether or not the mutex is free
zcond_wait_returns_unlocked(locked) == TRUE

\* zcond_wait: pthread_cond_wait returns with the mutex locked by the
\* caller; the woken caller is blocked until it has acquired it
zcond_wait_returns(locked) == zmutex_lock(locked)

SyncSignal(t) ==
    /\ spc[t] \in {"idle", "held"}
    /\ \E W \in zcond_signal(waiters) :
        /\ waiters' = waiters \ W
        /\ spc' = [u \in SyncThreads |-> IF u \in W THEN "wake" ELSE spc[u]]
    /\ slast' = [op |-> "signal", pre |-> waiters]
    /\ UNCHANGED <<mtx, sfrom, pending, smisuse>>

SyncBroadcast(t) ==
    /\ spc[t] \in {"idle", "held"}
    /\ waiters' = waiters \ zcond_broadcast(waiters)
    /\ spc' = [u \in SyncThreads |->
                  IF u \in zcond_broadcast(waiters) THEN "wake" ELSE spc[u]]
    /\ pending' = pending \cup waiters
    /\ slast' = [op |-> "broadcast", pre |-> waiters]
    /\ UNCHANGED <<mtx, sfrom, smisuse>>

\* a spurious wakeup of pthread_cond_wait
SyncSpurious(t) ==
    /\ t \in waiters
    /\ waiters' = waiters \ {t}
    /\ spc' = [spc EXCEPT ![t] = "wake"]
    /\ slast' = NoCondCall
    /\ UNCHANGED <<mtx, sfrom, pending, smisuse>>

\* zcond_wait returns to the woken thread
SyncWaitReturn(t) ==
    /\ spc[t] = "wake"
    /\ zcond_wait_returns(mtx)
    /\ mtx' = TRUE
    /\ spc' = [spc EXCEPT ![t] = "held"]
    /\ sfrom' = [sfrom EXCEPT ![t] = "wait"]
    /\ pending' = pending \ {t}
    /\ slast' = NoCondCall
    /\ UNCHANGED <<waiters, smisuse>>

NextSync ==
    \/ \E t \in SyncThreads : SyncCallLock(t) /\ UNCHANGED <<varsB, varsH, varsQ, varsO, varsJ, varsZ>>
    \/ \E t \in SyncThreads : SyncLock(t) /\ UNCHANGED <<varsB, varsH, varsQ, varsO, varsJ, varsZ>>
    \/ \E t \in SyncThreads : SyncUnlock(t) /\ UNCHANGED <<varsB, varsH, varsQ, varsO, varsJ, varsZ>>
    \/ \E t \in SyncThreads : SyncWait(t) /\ UNCHANGED <<varsB, varsH, varsQ, varsO, varsJ, varsZ>>
    \/ \E t \in SyncThreads : SyncSignal(t) /\ UNCHANGED <<varsB, varsH, varsQ, varsO, varsJ, varsZ>>
    \/ \E t \in SyncThreads : SyncBroadcast(t) /\ UNCHANGED <<varsB, varsH, varsQ, varsO, varsJ, varsZ>>
    \/ \E t \in SyncThreads : SyncSpurious(t) /\ UNCHANGED <<varsB, varsH, varsQ, varsO, varsJ, varsZ>>
    \/ \E t \in SyncThreads : SyncWaitReturn(t) /\ UNCHANGED <<varsB, varsH, varsQ, varsO, varsJ, varsZ>>

(***************************************************************************)
(* SpecMisuse: SpecSync with the calls that break the contract of the      *)
(* mutex.  zmutex_init gives pthread_mutex_init a null attribute, so the   *)
(* mutex is a default one: unlocking it from a thread that does not hold   *)
(* it, and locking it from the thread that holds it, are undefined.       *)
(* zmutex_unlock and zmutex_lock make the pthread call and nothing else:   *)
(* no check, no call of std::terminate or abort.                           *)
(***************************************************************************)
\* zmutex_unlock by a thread that does not hold the mutex: the mutex is
\* released whoever holds it, or the call fails and changes nothing
SyncUnlockNotHeld(t) ==
    /\ spc[t] = "idle"
    /\ \E released \in BOOLEAN : mtx' = IF released THEN zmutex_unlock(mtx) ELSE mtx
    /\ smisuse' = "unlock_not_held"
    /\ slast' = NoCondCall
    /\ UNCHANGED <<waiters, spc, sfrom, pending>>

\* zmutex_lock by the thread that holds the mutex: the thread is blocked
\* for ever, or the call fails and changes nothing
SyncRelock(t) ==
    /\ spc[t] = "held"
    /\ \E blocked \in BOOLEAN :
        spc' = IF blocked THEN [spc EXCEPT ![t] = "deadlock"] ELSE spc
    /\ smisuse' = "relock"
    /\ slast' = NoCondCall
    /\ UNCHANGED <<mtx, waiters, sfrom, pending>>

NextMisuse ==
    \/ NextSync
    \/ \E t \in SyncThreads : SyncUnlockNotHeld(t) /\ UNCHANGED <<varsB, varsH, varsQ, varsO, varsJ, varsZ>>
    \/ \E t \in SyncThreads : SyncRelock(t) /\ UNCHANGED <<varsB, varsH, varsQ, varsO, varsJ, varsZ>>

(***************************************************************************)
(* SpecQueue: examples/cpp/example_2.cpp.  main starts one worker thread,  *)
(* pushes the items 1..LastItem into a WorkQueue, calls finish() and joins *)
(* the worker; the worker pops and processes items until pop() returns     *)
(* false.  push, finish and pop hold the queue's mutex through a           *)
(* z_thread::lock_guard; pop waits on the condition variable.              *)
(* qpc: the position of "main" and of "worker".                            *)
(***************************************************************************)
QThreads == {"main", "worker"}

QueueInit ==
    /\ items = <<>>
    /\ finished = FALSE
    /\ qmtx = "none"
    /\ qpc = [t \in QThreads |-> IF t = "main" THEN "spawn" ELSE "none"]
    /\ pi = 1
    /\ job = 0
    /\ received = <<>>
    /\ guard = [t \in QThreads |-> [st |-> "none", unlocks |-> 0]]

\* the positions at which a lock_guard is constructed, and the next one
GuardCtorNext ==
    [push_lock |-> "push_item", fin_lock |-> "fin_set", pop_lock |-> "pop_test"]

\* the positions at which the scope of a lock_guard is left, and the next
\* one: the end of push and of finish, return false and return true in pop
GuardDtorNext ==
    [push_end |-> "sleep", fin_end |-> "join", pop_ret_false |-> "exit",
     pop_ret_true |-> "process"]

\* the threads blocked in cv.wait
QWaiters == {t \in QThreads : qpc[t] = "pop_wait"}

\* z_thread::thread worker([&]{ ... })
QSpawn ==
    /\ qpc["main"] = "spawn"
    /\ qpc' = [qpc EXCEPT !["main"] = "loop", !["worker"] = "pop_lock"]
    /\ UNCHANGED <<items, finished, qmtx, pi, job, received, guard>>

\* for(int i=1; i<=5; ++i): the test
QLoop ==
    /\ qpc["main"] = "loop"
    /\ qpc' = [qpc EXCEPT !["main"] = IF pi <= LastItem THEN "push_lock" ELSE "fin_lock"]
    /\ UNCHANGED <<items, finished, qmtx, pi, job, received, guard>>

\* lock_guard(mutex& m) : m_mutex(m) { m_mutex.lock(); }
QGuardCtor(t) ==
    /\ qpc[t] \in DOMAIN GuardCtorNext
    /\ zmutex_lock(qmtx # "none")
    /\ qmtx' = t
    /\ guard' = [guard EXCEPT ![t] = [st |-> "alive", unlocks |-> 0]]
    /\ qpc' = [qpc EXCEPT ![t] = GuardCtorNext[qpc[t]]]
    /\ UNCHANGED <<items, finished, pi, job, received>>

\* the destructor skipped when the scope is left by the early return
lock_guard_dtor_not_on_early_return(path) == path # "pop_ret_false"

\* ~lock_guard() { m_mutex.unlock(); }: run on every path that leaves the
\* scope of the guard
lock_guard_dtor(path) == TRUE

QGuardDtor(t) ==
    /\ qpc[t] \in DOMAIN GuardDtorNext
    /\ IF lock_guard_dtor(qpc[t])
       THEN /\ qmtx' = IF zmutex_unlock(qmtx # "none") THEN qmtx ELSE "none"
            /\ guard' = [guard EXCEPT ![t] = [st |-> "ended", unlocks |-> @.unlocks + 1]]
       ELSE /\ qmtx' = qmtx
            /\ guard' = [guard EXCEPT ![t].st = "ended"]
    /\ qpc' = [qpc EXCEPT ![t] = GuardDtorNext[qpc[t]]]
    /\ UNCHANGED <<items, finished, pi, job, received>>

\* push: items.push(item)
QPushItem ==
    /\ qpc["main"] = "push_item"
    /\ items' = Append(items, pi)
    /\ qpc' = [qpc EXCEPT !["main"] = "push_signal"]
    /\ UNCHANGED <<finished, qmtx, pi, job, received, guard>>

\* push: cv.signal()
QPushSignal ==
    /\ qpc["main"] = "push_signal"
    /\ \E W \in zcond_signal(QWaiters) :
        qpc' = [t \in QThreads |->
                   IF t \in W THEN "pop_woken"
                   ELSE IF t = "main" THEN "push_end" ELSE qpc[t]]
    /\ UNCHANGED <<items, finished, qmtx, pi, job, received, guard>>

\* z_thread::thread::sleep(50); ++i
QSleep ==
    /\ qpc["main"] = "sleep"
    /\ pi' = pi + 1
    /\ qpc' = [qpc EXCEPT !["main"] = "loop"]
    /\ UNCHANGED <<items, finished, qmtx, job, received, guard>>

\* finish: finished = true
QFinSet ==
    /\ qpc["main"] = "fin_set"
    /\ finished' = TRUE
    /\ qpc' = [qpc EXCEPT !["main"] = "fin_bcast"]
    /\ UNCHANGED <<items, qmtx, pi, job, received, guard>>

\* finish: cv.broadcast()
QFinBroadcast ==
    /\ qpc["main"] = "fin_bcast"
    /\ qpc' = [t \in QThreads |->
                  IF t \in zcond_broadcast(QWaiters) THEN "pop_woken"
                  ELSE IF t = "main" THEN "fin_end" ELSE qpc[t]]
    /\ UNCHANGED <<items, finished, qmtx, pi, job, received, guard>>

\* worker.join(): returns when the worker thread has returned
QJoin ==
    /\ qpc["main"] = "join"
    /\ qpc["worker"] = "done"
    /\ qpc' = [qpc EXCEPT !["main"] = "done"]
    /\ UNCHANGED <<items, finished, qmtx, pi, job, received, guard>>
\* pop waiting whenever the queue is empty, finished or not
pop_waits_while_empty(q, fin) == q = <<>>

\* pop: while(items.empty() && !finished)
pop_waits(q, fin) == q = <<>> /\ ~fin

QPopTest ==
    /\ qpc["worker"] = "pop_test"
    /\ qpc' = [qpc EXCEPT !["worker"] =
                  IF pop_waits(items, finished) THEN "pop_callwait" ELSE "pop_check"]
    /\ UNCHANGED <<items, finished, qmtx, pi, job, received, guard>>

\* pop: cv.wait(mtx) is called: the mutex is released and the worker blocked
QPopWait ==
    /\ qpc["worker"] = "pop_callwait"
    /\ qmtx' = "none"
    /\ qpc' = [qpc EXCEPT !["worker"] = "pop_wait"]
    /\ UNCHANGED <<items, finished, pi, job, received, guard>>

\* a spurious wakeup of the worker
QSpurious ==
    /\ qpc["worker"] = "pop_wait"
    /\ qpc' = [qpc EXCEPT !["worker"] = "pop_woken"]
    /\ UNCHANGED <<items, finished, qmtx, pi, job, received, guard>>

\* pop: cv.wait(mtx) returns, the mutex re-acquired
QPopWaitReturn ==
    /\ qpc["worker"] = "pop_woken"
    /\ zcond_wait_returns(qmtx # "none")
    /\ qmtx' = "worker"
    /\ qpc' = [qpc EXCEPT !["worker"] = "pop_test"]
    /\ UNCHANGED <<items, finished, pi, job, received, guard>>

\* pop: if(items.empty() && finished) return false;
QPopCheck ==
    /\ qpc["worker"] = "pop_check"
    /\ qpc' = [qpc EXCEPT !["worker"] =
                  IF items = <<>> /\ finished THEN "pop_ret_false" ELSE "pop_take"]
    /\ UNCHANGED <<items, finished, qmtx, pi, job, received, guard>>

\* pop: out_item = items.front(); items.pop(); return true.  On an empty
\* queue front() and pop() are undefined: any value is read.
QPopTake ==
    /\ qpc["worker"] = "pop_take"
    /\ IF items # <<>>
       THEN job' = Head(items) /\ items' = Tail(items)
       ELSE job' \in 0..LastItem /\ items' = items
    /\ qpc' = [qpc EXCEPT !["worker"] = "pop_ret_true"]
    /\ UNCHANGED <<finished, qmtx, pi, received, guard>>

\* while(queue.pop(job)) { std::cout << "Processing Job #" << job; }
QProcess ==
    /\ qpc["worker"] = "process"
    /\ received' = IF Len(received) <= LastItem THEN Append(received, job) ELSE received
    /\ qpc' = [qpc EXCEPT !["worker"] = "pop_lock"]
    /\ UNCHANGED <<items, finished, qmtx, pi, job, guard>>

\* std::cout << "Worker finished."; the callable returns
QWorkerExit ==
    /\ qpc["worker"] = "exit"
    /\ qpc' = [qpc EXCEPT !["worker"] = "done"]
    /\ UNCHANGED <<items, finished, qmtx, pi, job, received, guard>>

\* the steps of main and of the worker
QMain ==
    \/ QSpawn \/ QLoop \/ QGuardCtor("main") \/ QGuardDtor("main") \/ QPushItem
    \/ QPushSignal \/ QSleep \/ QFinSet \/ QFinBroadcast \/ QJoin

QWorker ==
    \/ QGuardCtor("worker") \/ QGuardDtor("worker") \/ QPopTest \/ QPopWait
    \/ QPopWaitReturn \/ QPopCheck \/ QPopTake \/ QProcess \/ QWorkerExit

NextQueue ==
    \/ QSpawn /\ UNCHANGED <<varsB, varsS, varsH, varsO, varsJ, varsZ>>
    \/ QLoop /\ UNCHANGED <<varsB, varsS, varsH, varsO, varsJ, varsZ>>
    \/ \E t \in QThreads : QGuardCtor(t) /\ UNCHANGED <<varsB, varsS, varsH, varsO, varsJ, varsZ>>
    \/ \E t \in QThreads : QGuardDtor(t) /\ UNCHANGED <<varsB, varsS, varsH, varsO, varsJ, varsZ>>
    \/ QPushItem /\ UNCHANGED <<varsB, varsS, varsH, varsO, varsJ, varsZ>>
    \/ QPushSignal /\ UNCHANGED <<varsB, varsS, varsH, varsO, varsJ, varsZ>>
    \/ QSleep /\ UNCHANGED <<varsB, varsS, varsH, varsO, varsJ, varsZ>>
    \/ QFinSet /\ UNCHANGED <<varsB, varsS, varsH, varsO, varsJ, varsZ>>
    \/ QFinBroadcast /\ UNCHANGED <<varsB, varsS, varsH, varsO, varsJ, varsZ>>
    \/ QJoin /\ UNCHANGED <<varsB, varsS, varsH, varsO, varsJ, varsZ>>
    \/ QPopTest /\ UNCHANGED <<varsB, varsS, varsH, varsO, varsJ, varsZ>>
    \/ QPopWait /\ UNCHANGED <<varsB, varsS, varsH, varsO, varsJ, varsZ>>
    \/ QSpurious /\ UNCHANGED <<varsB, varsS, varsH, varsO, varsJ, varsZ>>
    \/ QPopWaitReturn /\ UNCHANGED <<varsB, varsS, varsH, varsO, varsJ, varsZ>>
    \/ QPopCheck /\ UNCHANGED <<varsB, varsS, varsH, varsO, varsJ, varsZ>>
    \/ QPopTake /\ UNCHANGED <<varsB, varsS, varsH, varsO, varsJ, varsZ>>
    \/ QProcess /\ UNCHANGED <<varsB, varsS, varsH, varsO, varsJ, varsZ>>
    \/ QWorkerExit /\ UNCHANGED <<varsB, varsS, varsH, varsO, varsJ, varsZ>>

(***************************************************************************)
(* SpecHandoff: examples/c/example_2.c.  main creates the consumer, then   *)
(* the producer, and joins both.  The producer sets data and is_ready and  *)
(* signals, holding the mutex; the consumer, holding the mutex, waits      *)
(* while is_ready is 0, then reads data.  Each thread runs its function    *)
(* inside zthread__proxy_entry, which frees the wrap record after it.      *)
(* oprod: 0 not created, i the producer is before statement i of its body, *)
(* Len(producer_body) + 1 returned.  ocons, omain: positions by name.      *)
(***************************************************************************)
\* the producer setting is_ready before it locks the mutex
producer_body_ready_unlocked ==
    <<"entry", "print", "sleep", "ready", "lock", "data", "print", "signal",
      "unlock", "free">>

\* the statements of producer, in program order, between the entry of
\* zthread__proxy_entry and its ZTHREAD_FREE(w)
producer_body ==
    <<"entry", "print", "sleep", "lock", "data", "ready", "print", "signal",
      "unlock", "free">>

ProducerStmt ==
    IF oprod \in 1..Len(producer_body) THEN producer_body[oprod] ELSE "none"

ProducerDone == oprod = Len(producer_body) + 1

HandoffInit ==
    /\ odata = 0
    /\ oready = 0
    /\ omtx = FALSE
    /\ oprod = 0
    /\ ocons = "none"
    /\ omain = "mutex_init"
    /\ oread = -1

\* the threads blocked in cond_wait
OWaiters == IF ocons = "wait" THEN {"consumer"} ELSE {}

\* the steps of main that start and end no thread: mutex_init, cond_init,
\* the ZTHREAD_MALLOC of the wrap record in each zthread__create_ptr,
\* mutex_destroy, cond_destroy
MainLocalNext ==
    [mutex_init |-> "cond_init", cond_init |-> "malloc_cons",
     malloc_cons |-> "create_cons", malloc_prod |-> "create_prod",
     mutex_destroy |-> "cond_destroy", cond_destroy |-> "done"]

OMainLocal ==
    /\ omain \in DOMAIN MainLocalNext
    /\ omain' = MainLocalNext[omain]
    /\ UNCHANGED <<odata, oready, omtx, oprod, ocons, oread>>

\* thread_create(&t_cons, consumer, &ctx): pthread_create
OCreateConsumer ==
    /\ omain = "create_cons"
    /\ ocons' = "entry"
    /\ omain' = "malloc_prod"
    /\ UNCHANGED <<odata, oready, omtx, oprod, oread>>

\* thread_create(&t_prod, producer, &ctx): pthread_create
OCreateProducer ==
    /\ omain = "create_prod"
    /\ oprod' = 1
    /\ omain' = "join_prod"
    /\ UNCHANGED <<odata, oready, omtx, ocons, oread>>

\* thread_join(t_prod)
OJoinProducer ==
    /\ omain = "join_prod"
    /\ ProducerDone
    /\ omain' = "join_cons"
    /\ UNCHANGED <<odata, oready, omtx, oprod, ocons, oread>>

\* thread_join(t_cons)
OJoinConsumer ==
    /\ omain = "join_cons"
    /\ ocons = "done"
    /\ omain' = "mutex_destroy"
    /\ UNCHANGED <<odata, oready, omtx, oprod, ocons, oread>>

\* the producer's steps that touch no shared variable: the entry of the
\* proxy, printf, thread_sleep(1000), ZTHREAD_FREE(w) and the return
OProdLocal ==
    /\ ProducerStmt \in {"entry", "print", "sleep", "free"}
    /\ oprod' = oprod + 1
    /\ UNCHANGED <<odata, oready, omtx, ocons, omain, oread>>

\* mutex_lock(&ctx->mutex)
OProdLock ==
    /\ ProducerStmt = "lock"
    /\ zmutex_lock(omtx)
    /\ omtx' = TRUE
    /\ oprod' = oprod + 1
    /\ UNCHANGED <<odata, oready, ocons, omain, oread>>

\* ctx->data = 42
OProdData ==
    /\ ProducerStmt = "data"
    /\ odata' = HandoffValue
    /\ oprod' = oprod + 1
    /\ UNCHANGED <<oready, omtx, ocons, omain, oread>>

\* ctx->is_ready = 1
OProdReady ==
    /\ ProducerStmt = "ready"
    /\ oready' = 1
    /\ oprod' = oprod + 1
    /\ UNCHANGED <<odata, omtx, ocons, omain, oread>>

\* cond_signal(&ctx->cond)
OProdSignal ==
    /\ ProducerStmt = "signal"
    /\ \E W \in zcond_signal(OWaiters) :
        ocons' = IF "consumer" \in W THEN "woken" ELSE ocons
    /\ oprod' = oprod + 1
    /\ UNCHANGED <<odata, oready, omtx, omain, oread>>

\* mutex_unlock(&ctx->mutex)
OProdUnlock ==
    /\ ProducerStmt = "unlock"
    /\ omtx' = zmutex_unlock(omtx)
    /\ oprod' = oprod + 1
    /\ UNCHANGED <<odata, oready, ocons, omain, oread>>

\* the consumer's steps that touch no shared variable: the entry of the
\* proxy, printf, ZTHREAD_FREE(w) and the return
OConsLocal ==
    /\ ocons \in {"entry", "print", "free"}
    /\ ocons' = CASE ocons = "entry" -> "print"
                  [] ocons = "print" -> "lock"
                  [] OTHER -> "done"
    /\ UNCHANGED <<odata, oready, omtx, oprod, omain, oread>>

\* consumer: mutex_lock(&ctx->mutex)
OConsLock ==
    /\ ocons = "lock"
    /\ zmutex_lock(omtx)
    /\ omtx' = TRUE
    /\ ocons' = "test"
    /\ UNCHANGED <<odata, oready, oprod, omain, oread>>

\* consumer: while (ctx->is_ready == 0)
OConsTest ==
    /\ ocons = "test"
    /\ ocons' = IF oready = 0 THEN "callwait" ELSE "read"
    /\ UNCHANGED <<odata, oready, omtx, oprod, omain, oread>>

\* consumer: cond_wait is called: the mutex is released, the consumer blocked
OConsWait ==
    /\ ocons = "callwait"
    /\ omtx' = FALSE
    /\ ocons' = "wait"
    /\ UNCHANGED <<odata, oready, oprod, omain, oread>>

\* a spurious wakeup of the consumer
OSpurious ==
    /\ ocons = "wait"
    /\ ocons' = "woken"
    /\ UNCHANGED <<odata, oready, omtx, oprod, omain, oread>>

\* consumer: cond_wait returns, the mutex re-acquired
OConsWaitReturn ==
    /\ ocons = "woken"
    /\ zcond_wait_returns(omtx)
    /\ omtx' = TRUE
    /\ ocons' = "test"
    /\ UNCHANGED <<odata, oready, oprod, omain, oread>>

\* consumer: printf("... %d", ctx->data)
OConsRead ==
    /\ ocons = "read"
    /\ oread' = odata
    /\ ocons' = "unlock"
    /\ UNCHANGED <<odata, oready, omtx, oprod, omain>>

\* consumer: mutex_unlock(&ctx->mutex); the consumer returns to the proxy
OConsUnlock ==
    /\ ocons = "unlock"
    /\ omtx' = zmutex_unlock(omtx)
    /\ ocons' = "free"
    /\ UNCHANGED <<odata, oready, oprod, omain, oread>>

\* the steps of main, of the producer and of the consumer
OMain ==
    OMainLocal \/ OCreateConsumer \/ OCreateProducer \/ OJoinProducer \/ OJoinConsumer

OProducer ==
    OProdLocal \/ OProdLock \/ OProdData \/ OProdReady \/ OProdSignal \/ OProdUnlock

OConsumer ==
    OConsLocal \/ OConsLock \/ OConsTest \/ OConsWait \/ OConsWaitReturn \/ OConsRead \/ OConsUnlock

NextHandoff ==
    \/ OMainLocal /\ UNCHANGED <<varsB, varsS, varsH, varsQ, varsJ, varsZ>>
    \/ OConsLocal /\ UNCHANGED <<varsB, varsS, varsH, varsQ, varsJ, varsZ>>
    \/ OCreateConsumer /\ UNCHANGED <<varsB, varsS, varsH, varsQ, varsJ, varsZ>>
    \/ OCreateProducer /\ UNCHANGED <<varsB, varsS, varsH, varsQ, varsJ, varsZ>>
    \/ OJoinProducer /\ UNCHANGED <<varsB, varsS, varsH, varsQ, varsJ, varsZ>>
    \/ OJoinConsumer /\ UNCHANGED <<varsB, varsS, varsH, varsQ, varsJ, varsZ>>
    \/ OProdLocal /\ UNCHANGED <<varsB, varsS, varsH, varsQ, varsJ, varsZ>>
    \/ OProdLock /\ UNCHANGED <<varsB, varsS, varsH, varsQ, varsJ, varsZ>>
    \/ OProdData /\ UNCHANGED <<varsB, varsS, varsH, varsQ, varsJ, varsZ>>
    \/ OProdReady /\ UNCHANGED <<varsB, varsS, varsH, varsQ, varsJ, varsZ>>
    \/ OProdSignal /\ UNCHANGED <<varsB, varsS, varsH, varsQ, varsJ, varsZ>>
    \/ OProdUnlock /\ UNCHANGED <<varsB, varsS, varsH, varsQ, varsJ, varsZ>>
    \/ OConsLock /\ UNCHANGED <<varsB, varsS, varsH, varsQ, varsJ, varsZ>>
    \/ OConsTest /\ UNCHANGED <<varsB, varsS, varsH, varsQ, varsJ, varsZ>>
    \/ OConsWait /\ UNCHANGED <<varsB, varsS, varsH, varsQ, varsJ, varsZ>>
    \/ OSpurious /\ UNCHANGED <<varsB, varsS, varsH, varsQ, varsJ, varsZ>>
    \/ OConsWaitReturn /\ UNCHANGED <<varsB, varsS, varsH, varsQ, varsJ, varsZ>>
    \/ OConsRead /\ UNCHANGED <<varsB, varsS, varsH, varsQ, varsJ, varsZ>>
    \/ OConsUnlock /\ UNCHANGED <<varsB, varsS, varsH, varsQ, varsJ, varsZ>>

(***************************************************************************)
(* SpecJobs: examples/example_3.c.  main creates two worker threads,       *)
(* pushes the jobs 1..NJobs into a JobQueue of MAX_JOBS slots (queue_push  *)
(* waits on has_space while the queue is full), then sets done under the   *)
(* lock, broadcasts on has_work and joins the workers.  A worker waits on  *)
(* has_work while the queue is empty and done is unset, leaves when the    *)
(* queue is empty and done is set, and otherwise takes the job at head,    *)
(* signals has_space and processes the job outside the lock.               *)
(* jpc: the position of "main", "w1" and "w2".                             *)
(***************************************************************************)
JWorkers == {"w1", "w2"}
JThreads == {"main"} \cup JWorkers
Slots == 0..(MAX_JOBS - 1)

\* queue_init, and the ghosts: jocc, the slots that hold a job not yet
\* taken; jtaken, the jobs taken, in the order taken; jlost, the jobs whose
\* slot was written again before they were taken.  items is not
\* initialised by queue_init; no slot is read before it is written unless
\* a worker takes from a slot that is not in jocc.
JobsInit ==
    /\ jitems = [k \in Slots |-> 0]
    /\ jcount = 0
    /\ jhead = 0
    /\ jtail = 0
    /\ jdone = FALSE
    /\ jlock = "none"
    /\ jpc = [t \in JThreads |-> IF t = "main" THEN "create" ELSE "none"]
    /\ ji = 1
    /\ jjob = [w \in JWorkers |-> 0]
    /\ jocc = {}
    /\ jtaken = <<>>
    /\ jlost = {}

\* the threads blocked in cond_wait on has_work and on has_space
HasWorkWaiters == {w \in JWorkers : jpc[w] = "w_wait"}
HasSpaceWaiters == {t \in {"main"} : jpc[t] = "p_wait"}

\* thread_create(&w1, worker, &queue); thread_create(&w2, worker, &queue)
JCreate ==
    /\ jpc["main"] = "create"
    /\ jpc' = IF jpc["w1"] = "none"
              THEN [jpc EXCEPT !["w1"] = "w_lock"]
              ELSE [jpc EXCEPT !["w2"] = "w_lock", !["main"] = "loop"]
    /\ UNCHANGED <<jitems, jcount, jhead, jtail, jdone, jlock, ji, jjob, jocc,
                   jtaken, jlost>>

\* for (int i = 1; i <= 10; i++): the test
JLoop ==
    /\ jpc["main"] = "loop"
    /\ jpc' = [jpc EXCEPT !["main"] = IF ji <= NJobs THEN "p_lock" ELSE "d_lock"]
    /\ UNCHANGED <<jitems, jcount, jhead, jtail, jdone, jlock, ji, jjob, jocc,
                   jtaken, jlost>>

\* the positions at which mutex_lock(&q->lock) is called, and the next one
JLockNext == [p_lock |-> "p_test", d_lock |-> "d_set", w_lock |-> "w_test"]

\* the positions at which mutex_unlock(&q->lock) is called, and the next
\* one: the end of queue_push, main after the broadcast, the worker leaving
\* its loop, the worker after taking a job
JUnlockNext ==
    [p_unlock |-> "sleep", d_unlock |-> "join", w_exit |-> "done",
     w_unlock |-> "process"]

\* mutex_lock(&q->lock)
JLock(t) ==
    /\ jpc[t] \in DOMAIN JLockNext
    /\ zmutex_lock(jlock # "none")
    /\ jlock' = t
    /\ jpc' = [jpc EXCEPT ![t] = JLockNext[jpc[t]]]
    /\ UNCHANGED <<jitems, jcount, jhead, jtail, jdone, ji, jjob, jocc, jtaken,
                   jlost>>

\* mutex_unlock(&q->lock)
JUnlock(t) ==
    /\ jpc[t] \in DOMAIN JUnlockNext
    /\ jlock' = IF zmutex_unlock(jlock # "none") THEN jlock ELSE "none"
    /\ jpc' = [jpc EXCEPT ![t] = JUnlockNext[jpc[t]]]
    /\ UNCHANGED <<jitems, jcount, jhead, jtail, jdone, ji, jjob, jocc, jtaken,
                   jlost>>

\* queue_push storing whether or not the queue is full
queue_push_never_waits(count) == FALSE

\* queue_push: while (q->count == MAX_JOBS)
queue_push_waits(count) == count = MAX_JOBS

\* queue_push: the test of the loop; cond_wait(&q->has_space, &q->lock) is
\* called when it holds: the lock is released and main blocked
JPushTest ==
    /\ jpc["main"] = "p_test"
    /\ IF queue_push_waits(jcount)
       THEN /\ jlock' = "none"
            /\ jpc' = [jpc EXCEPT !["main"] = "p_wait"]
       ELSE /\ jlock' = jlock
            /\ jpc' = [jpc EXCEPT !["main"] = "p_store"]
    /\ UNCHANGED <<jitems, jcount, jhead, jtail, jdone, ji, jjob, jocc, jtaken,
                   jlost>>

\* cond_wait returns to a woken thread, the lock re-acquired
JWaitReturn(t) ==
    /\ jpc[t] \in {"p_woken", "w_woken"}
    /\ zcond_wait_returns(jlock # "none")
    /\ jlock' = t
    /\ jpc' = [jpc EXCEPT ![t] = IF t = "main" THEN "p_test" ELSE "w_test"]
    /\ UNCHANGED <<jitems, jcount, jhead, jtail, jdone, ji, jjob, jocc, jtaken,
                   jlost>>

\* a spurious wakeup of a thread blocked in cond_wait
JSpurious(t) ==
    /\ jpc[t] \in {"p_wait", "w_wait"}
    /\ jpc' = [jpc EXCEPT ![t] = IF t = "main" THEN "p_woken" ELSE "w_woken"]
    /\ UNCHANGED <<jitems, jcount, jhead, jtail, jdone, jlock, ji, jjob, jocc,
                   jtaken, jlost>>

\* queue_push: q->items[q->tail] = job_id; q->tail = (q->tail + 1) %
\* MAX_JOBS; q->count++
JPushStore ==
    /\ jpc["main"] = "p_store"
    /\ jitems' = [jitems EXCEPT ![jtail] = ji]
    /\ jtail' = (jtail + 1) % MAX_JOBS
    /\ jcount' = jcount + 1
    /\ jlost' = IF jtail \in jocc THEN jlost \cup {jitems[jtail]} ELSE jlost
    /\ jocc' = jocc \cup {jtail}
    /\ jpc' = [jpc EXCEPT !["main"] = "p_signal"]
    /\ UNCHANGED <<jhead, jdone, jlock, ji, jjob, jtaken>>

\* queue_push: cond_signal(&q->has_work)
JPushSignal ==
    /\ jpc["main"] = "p_signal"
    /\ \E W \in zcond_signal(HasWorkWaiters) :
        jpc' = [t \in JThreads |->
                   IF t \in W THEN "w_woken"
                   ELSE IF t = "main" THEN "p_unlock" ELSE jpc[t]]
    /\ UNCHANGED <<jitems, jcount, jhead, jtail, jdone, jlock, ji, jjob, jocc,
                   jtaken, jlost>>

\* thread_sleep(50); i++
JSleep ==
    /\ jpc["main"] = "sleep"
    /\ ji' = ji + 1
    /\ jpc' = [jpc EXCEPT !["main"] = "loop"]
    /\ UNCHANGED <<jitems, jcount, jhead, jtail, jdone, jlock, jjob, jocc, jtaken,
                   jlost>>

\* queue.done = true
JDoneSet ==
    /\ jpc["main"] = "d_set"
    /\ jdone' = TRUE
    /\ jpc' = [jpc EXCEPT !["main"] = "d_bcast"]
    /\ UNCHANGED <<jitems, jcount, jhead, jtail, jlock, ji, jjob, jocc, jtaken,
                   jlost>>

\* cond_broadcast(&queue.has_work)
JDoneBroadcast ==
    /\ jpc["main"] = "d_bcast"
    /\ jpc' = [t \in JThreads |->
                  IF t \in zcond_broadcast(HasWorkWaiters) THEN "w_woken"
                  ELSE IF t = "main" THEN "d_unlock" ELSE jpc[t]]
    /\ UNCHANGED <<jitems, jcount, jhead, jtail, jdone, jlock, ji, jjob, jocc,
                   jtaken, jlost>>

\* thread_join(w1); thread_join(w2)
JJoin ==
    /\ jpc["main"] = "join"
    /\ \A w \in JWorkers : jpc[w] = "done"
    /\ jpc' = [jpc EXCEPT !["main"] = "done"]
    /\ UNCHANGED <<jitems, jcount, jhead, jtail, jdone, jlock, ji, jjob, jocc,
                   jtaken, jlost>>
\* the worker waiting whenever the queue is empty, done or not
worker_waits_while_empty(count, done) == count = 0

\* worker: while (q->count == 0 && !q->done)
worker_waits(count, done) == count = 0 /\ ~done

\* worker: the test of the inner loop; cond_wait(&q->has_work, &q->lock) is
\* called when it holds; otherwise if (q->count == 0 && q->done) follows
JWorkerTest(w) ==
    /\ jpc[w] = "w_test"
    /\ IF worker_waits(jcount, jdone)
       THEN /\ jlock' = "none"
            /\ jpc' = [jpc EXCEPT ![w] = "w_wait"]
       ELSE /\ jlock' = jlock
            /\ jpc' = [jpc EXCEPT ![w] =
                          IF jcount = 0 /\ jdone THEN "w_exit" ELSE "w_take"]
    /\ UNCHANGED <<jitems, jcount, jhead, jtail, jdone, ji, jjob, jocc, jtaken,
                   jlost>>

\* worker: int job = q->items[q->head]; q->head = (q->head + 1) % MAX_JOBS;
\* q->count--
JWorkerTake(w) ==
    /\ jpc[w] = "w_take"
    /\ jjob' = [jjob EXCEPT ![w] = jitems[jhead]]
    /\ jhead' = (jhead + 1) % MAX_JOBS
    /\ jcount' = jcount - 1
    /\ jocc' = jocc \ {jhead}
    /\ jtaken' = Append(jtaken, jitems[jhead])
    /\ jpc' = [jpc EXCEPT ![w] = "w_signal"]
    /\ UNCHANGED <<jitems, jtail, jdone, jlock, ji, jlost>>

\* worker: cond_signal(&q->has_space)
JWorkerSignal(w) ==
    /\ jpc[w] = "w_signal"
    /\ \E W \in zcond_signal(HasSpaceWaiters) :
        jpc' = [t \in JThreads |->
                   IF t \in W THEN "p_woken"
                   ELSE IF t = w THEN "w_unlock" ELSE jpc[t]]
    /\ UNCHANGED <<jitems, jcount, jhead, jtail, jdone, jlock, ji, jjob, jocc,
                   jtaken, jlost>>

\* worker: printf("Processing Job"); thread_sleep(100)
JWorkerProcess(w) ==
    /\ jpc[w] = "process"
    /\ jpc' = [jpc EXCEPT ![w] = "w_lock"]
    /\ UNCHANGED <<jitems, jcount, jhead, jtail, jdone, jlock, ji, jjob, jocc,
                   jtaken, jlost>>

\* the steps of one thread
JStep(t) ==
    \/ JLock(t) \/ JUnlock(t) \/ JWaitReturn(t)
    \/ (t = "main" /\ (JCreate \/ JLoop \/ JPushTest \/ JPushStore \/ JPushSignal
                       \/ JSleep \/ JDoneSet \/ JDoneBroadcast \/ JJoin))
    \/ (t \in JWorkers /\ (JWorkerTest(t) \/ JWorkerTake(t) \/ JWorkerSignal(t)
                           \/ JWorkerProcess(t)))

NextJobs ==
    \/ JCreate /\ UNCHANGED <<varsB, varsS, varsH, varsQ, varsO, varsZ>>
    \/ JLoop /\ UNCHANGED <<varsB, varsS, varsH, varsQ, varsO, varsZ>>
    \/ \E t \in JThreads : JLock(t) /\ UNCHANGED <<varsB, varsS, varsH, varsQ, varsO, varsZ>>
    \/ \E t \in JThreads : JUnlock(t) /\ UNCHANGED <<varsB, varsS, varsH, varsQ, varsO, varsZ>>
    \/ JPushTest /\ UNCHANGED <<varsB, varsS, varsH, varsQ, varsO, varsZ>>
    \/ \E t \in JThreads : JWaitReturn(t) /\ UNCHANGED <<varsB, varsS, varsH, varsQ, varsO, varsZ>>
    \/ \E t \in JThreads : JSpurious(t) /\ UNCHANGED <<varsB, varsS, varsH, varsQ, varsO, varsZ>>
    \/ JPushStore /\ UNCHANGED <<varsB, varsS, varsH, varsQ, varsO, varsZ>>
    \/ JPushSignal /\ UNCHANGED <<varsB, varsS, varsH, varsQ, varsO, varsZ>>
    \/ JSleep /\ UNCHANGED <<varsB, varsS, varsH, varsQ, varsO, varsZ>>
    \/ JDoneSet /\ UNCHANGED <<varsB, varsS, varsH, varsQ, varsO, varsZ>>
    \/ JDoneBroadcast /\ UNCHANGED <<varsB, varsS, varsH, varsQ, varsO, varsZ>>
    \/ JJoin /\ UNCHANGED <<varsB, varsS, varsH, varsQ, varsO, varsZ>>
    \/ \E w \in JWorkers : JWorkerTest(w) /\ UNCHANGED <<varsB, varsS, varsH, varsQ, varsO, varsZ>>
    \/ \E w \in JWorkers : JWorkerTake(w) /\ UNCHANGED <<varsB, varsS, varsH, varsQ, varsO, varsZ>>
    \/ \E w \in JWorkers : JWorkerSignal(w) /\ UNCHANGED <<varsB, varsS, varsH, varsQ, varsO, varsZ>>
    \/ \E w \in JWorkers : JWorkerProcess(w) /\ UNCHANGED <<varsB, varsS, varsH, varsQ, varsO, varsZ>>

(***************************************************************************)
(* SpecSleep: zthread_sleep(ms) called with non-negative arguments, in the *)
(* nanosleep-based version (zthread.h) and in the usleep-based version     *)
(* (src/zthread.c).  The arithmetic of both is int arithmetic of 32 bits;  *)
(* a 32-bit value is kept as its two 16-bit halves, so that no             *)
(* intermediate value leaves the range of the model checker's integers.    *)
(***************************************************************************)

\* the arguments tried: 0..MaxSleepMs, and the values around the places
\* where ms / 1000, ms * 1000 and the conversion to useconds_t change
SleepArgs ==
    (0..MaxSleepMs) \cup {999, 1000, 1001, 59999, 2147483, 2147484, 4294967,
                          4294968, 2147483646, 2147483647}

\* a * b for ints a >= 0 and 0 <= b < 65536: the two 16-bit halves of the
\* low 32 bits of the product, and whether the product exceeds INT_MAX
Mul32(a, b) ==
    LET lo == (a % 65536) * b
        hi == (a \div 65536) * b + (lo \div 65536)
    IN  [hi |-> hi % 65536, lo |-> lo % 65536, overflow |-> hi >= 32768]

\* the 32 bits read as an int (two's complement)
AsInt(p) == IF p.hi >= 32768 THEN (p.hi - 65536) * 65536 + p.lo ELSE p.hi * 65536 + p.lo

\* the duration the operating system is asked for by nanosleep(&ts, NULL)
nanosleep(tv_sec, tv_nsec, ovf) ==
    [requested |-> TRUE, sec |-> tv_sec, nsec |-> tv_nsec, overflow |-> ovf]

\* the duration the operating system is asked for by usleep(us), us the 32
\* bits p read as a useconds_t (unsigned): us / 1000000 seconds and
\* (us % 1000000) * 1000 nanoseconds, computed on us / 2
usleep(p, ovf) ==
    LET half == p.hi * 32768 + (p.lo \div 2)
    IN  [requested |-> TRUE, sec |-> half \div 500000,
         nsec |-> (2 * (half % 500000) + (p.lo % 2)) * 1000, overflow |-> ovf]

\* a build that traps on signed overflow: no request is made
SleepTrapped == [requested |-> FALSE, sec |-> 0, nsec |-> 0, overflow |-> TRUE]

\* zthread_sleep of zthread.h: ts.tv_sec = ms / 1000; ts.tv_nsec = (ms %
\* 1000) * 1000000; nanosleep(&ts, NULL).  The outcomes; a signed overflow
\* is undefined: the wrapped value or a trap
zthread_sleep_nanosleep(ms) ==
    LET p == Mul32(1000000, ms % 1000)
    IN  {nanosleep(ms \div 1000, AsInt(p), p.overflow)}
        \cup (IF p.overflow THEN {SleepTrapped} ELSE {})

\* zthread_sleep of src/zthread.c: usleep(ms * 1000)
zthread_sleep_usleep(ms) ==
    LET p == Mul32(ms, 1000)
    IN  {usleep(p, p.overflow)} \cup (IF p.overflow THEN {SleepTrapped} ELSE {})

SleepInit ==
    /\ zms = 0
    /\ zver = "none"
    /\ zreq = [requested |-> FALSE, sec |-> 0, nsec |-> 0, overflow |-> FALSE]

\* a call of zthread_sleep(ms), nanosleep-based version
ZSleepNanosleep ==
    \E ms \in SleepArgs :
        /\ zms' = ms
        /\ zver' = "nanosleep"
        /\ zreq' \in zthread_sleep_nanosleep(ms)

\* a call of zthread_sleep(ms), usleep-based version
ZSleepUsleep ==
    \E ms \in SleepArgs :
        /\ zms' = ms
        /\ zver' = "usleep"
        /\ zreq' \in zthread_sleep_usleep(ms)

NextSleep ==
    \/ ZSleepNanosleep /\ UNCHANGED <<varsB, varsS, varsH, varsQ, varsO, varsJ>>
    \/ ZSleepUsleep /\ UNCHANGED <<varsB, varsS, varsH, varsQ, varsO, varsJ>>

(***************************************************************************)
(* Spec: one thread owns NHandles z_thread::thread objects and performs    *)
(* on them default construction, spawn (the constructor from a callable),  *)
(* move construction, move assignment, join, detach and destruction; each  *)
(* successful spawn starts a native thread that runs zthread__proxy_entry. *)
(* At most MaxSpawns spawns are made; spawn number s starts, when it       *)
(* succeeds, the native thread whose identifier is s.                      *)
(***************************************************************************)
Handles == 1..NHandles
Spawns == 1..MaxSpawns
Ids == 0..MaxSpawns

\* The two heap envelopes of a spawn: the impl_type object (new/delete) and
\* the zthread__wrap record (ZTHREAD_MALLOC/ZTHREAD_FREE).  For each: the
\* number of allocations and the parties that freed it, in order.
\* callerAfterStart: the creating caller read, wrote or freed an envelope
\* after the native start had succeeded.  afterFree: an envelope was read,
\* written or freed after it had been freed.  startAttempts: the calls of
\* pthread_create made for the spawn.  arg: the field w->arg, the number of
\* the spawn whose impl object it points to; ranWith: the argument the proxy
\* passed to w->f.
EnvInit ==
    [implAlloc |-> 0, implFreedBy |-> <<>>, wrapAlloc |-> 0, wrapFreedBy |-> <<>>,
     callerAfterStart |-> FALSE, afterFree |-> FALSE, startAttempts |-> 0,
     arg |-> 0, ranWith |-> 0]

EnvTouchImpl(e, who, started) ==
    [e EXCEPT !.afterFree = @ \/ e.implFreedBy # <<>>,
              !.callerAfterStart = @ \/ (who = "caller" /\ started)]

EnvTouchWrap(e, who, started) ==
    [e EXCEPT !.afterFree = @ \/ e.wrapFreedBy # <<>>,
              !.callerAfterStart = @ \/ (who = "caller" /\ started)]

EnvFreeImpl(e, who, started) ==
    [EnvTouchImpl(e, who, started) EXCEPT
        !.implFreedBy = IF Len(@) < 2 THEN Append(@, who) ELSE @]

\* the wrap record used and not freed
EnvKeepWrap(e, who, started) == EnvTouchWrap(e, who, started)

EnvFreeWrap(e, who, started) ==
    [EnvTouchWrap(e, who, started) EXCEPT
        !.wrapFreedBy = IF Len(@) < 2 THEN Append(@, who) ELSE @]

Started(s) == tpc[s] # "none"

\* the process has not been terminated: std::terminate() has been called
\* neither by an operation on a handle nor for an exception that left a
\* thread's callable
ProcessRuns == mpc # "terminated" /\ \A s \in Spawns : tpc[s] # "threw"

\* the storage of handle objects is taken in order: h is the next free one
NextFree(h) == hstate[h] = "none" /\ \A g \in Handles : g < h => hstate[g] # "none"

\* an identifier on which pthread_join or pthread_detach may be called
ValidTarget(id) ==
    /\ id \in Spawns
    /\ Started(id)
    /\ nativeJoins[id] = 0
    /\ nativeDetaches[id] = 0

RECURSIVE SumCalls(_)
SumCalls(S) ==
    IF S = {} THEN 0
    ELSE LET s == CHOOSE x \in S : TRUE
         IN nativeJoins[s] + nativeDetaches[s] + SumCalls(S \ {s})

\* the number of native join and detach calls made so far, plus those made
\* on an identifier that names no thread
NativeCalls == SumCalls(Spawns) + badNative

\* what the last operation found when it was called: the target's and the
\* source's fields and the number of native calls made before it (s: the
\* number of the spawn, for a spawn).  A join that enters pthread_join is
\* "join_call" until it returns, a spawn is "spawn_call" until it returns.
LastRec(op, h, src) ==
    [op |-> op, h |-> h, src |-> src,
     preJoinable |-> joinable[h], preInner |-> inner[h],
     srcJoinable |-> IF src = 0 THEN FALSE ELSE joinable[src],
     srcInner |-> IF src = 0 THEN 0 ELSE inner[src],
     preCalls |-> NativeCalls, wasMovedFrom |-> movedFrom[h], s |-> 0]

HandleInit ==
    /\ hstate = [h \in Handles |-> "none"]
    /\ inner = [h \in Handles |-> 0]
    /\ joinable = [h \in Handles |-> FALSE]
    /\ movedFrom = [h \in Handles |-> FALSE]
    /\ mpc = "ready"
    /\ cur = [h |-> 0, s |-> 0]
    /\ nspawn = 0
    /\ env = [s \in Spawns |-> EnvInit]
    /\ tpc = [s \in Spawns |-> "none"]
    /\ invoked = [s \in Spawns |-> 0]
    /\ effect = [s \in Spawns |-> FALSE]
    /\ rc = [s \in Spawns |-> 1]
    /\ nativeJoins = [s \in Spawns |-> 0]
    /\ nativeDetaches = [s \in Spawns |-> 0]
    /\ badNative = 0
    /\ last = [op |-> "init", h |-> 0, src |-> 0, preJoinable |-> FALSE,
               preInner |-> 0, srcJoinable |-> FALSE, srcInner |-> 0,
               preCalls |-> 0, wasMovedFrom |-> FALSE, s |-> 0]

Init == BankInit /\ nbank = 0 /\ SyncInit /\ HandleInit /\ QueueInit /\ HandoffInit /\ JobsInit /\ SleepInit

(***************************************************************************)
(* zthread__create_ptr (POSIX).                                            *)
(***************************************************************************)
\* the return code with a failed pthread_create reported as success
zthread__create_ptr_rc_start_unchecked(mallocOk, startOk) ==
    IF ~mallocOk THEN Z_ENOMEM ELSE Z_OK

\* the return code with one error code for both failures
zthread__create_ptr_rc_one_error(mallocOk, startOk) ==
    IF mallocOk /\ startOk THEN Z_OK ELSE Z_ERR

\* the return code, from whether ZTHREAD_MALLOC and pthread_create succeeded
zthread__create_ptr_rc(mallocOk, startOk) ==
    IF ~mallocOk THEN Z_ENOMEM
    ELSE IF ~startOk THEN Z_ERR
    ELSE Z_OK

\* the wrap record freed after pthread_create whatever it returned
zthread__create_ptr_frees_always(startOk) == TRUE

\* whether zthread__create_ptr frees the wrap record after pthread_create
zthread__create_ptr_frees(startOk) == ~startOk

(***************************************************************************)
(* thread::thread(Function&&, Args&&...).                                  *)
(***************************************************************************)
\* the value given to joinable, from what zthread__create_ptr returned
thread_ctor_joinable(r) == r = Z_OK

\* the impl object deleted whatever zthread__create_ptr returned
thread_ctor_deletes_always(r) == TRUE

\* whether the constructor deletes the impl object
thread_ctor_deletes(r) == r # Z_OK

\* auto bound_func = std::bind(...); impl_base* p = new impl_type<...>(...)
SpawnNew(h) ==
    /\ ProcessRuns
    /\ mpc = "ready"
    /\ NextFree(h)
    /\ nspawn < MaxSpawns
    /\ nspawn' = nspawn + 1
    /\ cur' = [h |-> h, s |-> nspawn + 1]
    /\ env' = [env EXCEPT ![nspawn + 1].implAlloc = @ + 1]
    /\ mpc' = "create_malloc"
    /\ last' = [LastRec("spawn_call", h, 0) EXCEPT !.s = nspawn + 1]
    /\ UNCHANGED <<hstate, inner, joinable, movedFrom, tpc, invoked, effect, rc,
                   nativeJoins, nativeDetaches, badNative>>

\* zthread__create_ptr: w = ZTHREAD_MALLOC(sizeof(*w)); if (!w) return
\* Z_ENOMEM; w->f = func; w->arg = arg
SpawnMalloc ==
    /\ ProcessRuns
    /\ mpc = "create_malloc"
    /\ \E mallocOk \in BOOLEAN :
        IF mallocOk
        THEN /\ env' = [env EXCEPT ![cur.s] =
                           EnvTouchWrap([@ EXCEPT !.wrapAlloc = @ + 1, !.arg = cur.s],
                                        "caller", Started(cur.s))]
             /\ mpc' = "create_start"
             /\ rc' = rc
        ELSE /\ rc' = [rc EXCEPT ![cur.s] = zthread__create_ptr_rc(FALSE, FALSE)]
             /\ mpc' = "ctor_finish"
             /\ env' = env
    /\ UNCHANGED <<hstate, inner, joinable, movedFrom, cur, nspawn, tpc, invoked,
                   effect, nativeJoins, nativeDetaches, badNative, last>>

\* zthread__create_ptr: pthread_create(t, NULL, zthread__proxy_entry, w); on
\* failure ZTHREAD_FREE(w) and return Z_ERR, else return Z_OK.  On success
\* pthread_create has stored the identifier in *t and the new thread exists.
SpawnStart ==
    /\ ProcessRuns
    /\ mpc = "create_start"
    /\ \E startOk \in BOOLEAN :
        /\ tpc' = [tpc EXCEPT ![cur.s] = IF startOk THEN "entry" ELSE @]
        /\ inner' = [inner EXCEPT ![cur.h] = IF startOk THEN cur.s ELSE @]
        /\ env' = [env EXCEPT ![cur.s] =
                      IF zthread__create_ptr_frees(startOk)
                      THEN EnvFreeWrap([@ EXCEPT !.startAttempts = @ + 1], "caller",
                                       startOk)
                      ELSE [@ EXCEPT !.startAttempts = @ + 1]]
        /\ rc' = [rc EXCEPT ![cur.s] = zthread__create_ptr_rc(TRUE, startOk)]
    /\ mpc' = "ctor_finish"
    /\ UNCHANGED <<hstate, joinable, movedFrom, cur, nspawn, invoked, effect,
                   nativeJoins, nativeDetaches, badNative, last>>

\* if (create_ptr(...) == Z_OK) joinable = true; else { delete p; joinable =
\* false; }.  This constructor does not initialise inner: when
\* zthread__create_ptr has not stored an identifier, inner is indeterminate.
SpawnFinish ==
    /\ ProcessRuns
    /\ mpc = "ctor_finish"
    /\ joinable' = [joinable EXCEPT ![cur.h] = thread_ctor_joinable(rc[cur.s])]
    /\ env' = [env EXCEPT ![cur.s] =
                  IF thread_ctor_deletes(rc[cur.s])
                  THEN EnvFreeImpl(@, "caller", Started(cur.s))
                  ELSE @]
    /\ IF Started(cur.s)
       THEN inner' = inner
       ELSE \E g \in Ids : inner' = [inner EXCEPT ![cur.h] = g]
    /\ hstate' = [hstate EXCEPT ![cur.h] = "live"]
    /\ last' = [last EXCEPT !.op = "spawn"]
    /\ mpc' = "ready"
    /\ cur' = [h |-> 0, s |-> 0]
    /\ UNCHANGED <<movedFrom, nspawn, tpc, invoked, effect, rc, nativeJoins,
                   nativeDetaches, badNative>>

(***************************************************************************)
(* The native thread: zthread__proxy_entry and thread::proxy_thunk.        *)
(***************************************************************************)
\* the proxy calling w->f twice
zthread__proxy_entry_invokes_twice(n) == n + 2

\* zthread__proxy_entry: w->f(w->arg), one call; n is the number of calls
\* made before
zthread__proxy_entry_invokes(n) == n + 1

\* w = p; w->f(w->arg): proxy_thunk casts arg to impl_base* and calls run()
ProxyInvoke(s) ==
    /\ ProcessRuns
    /\ tpc[s] = "entry"
    /\ env' = [env EXCEPT ![s] =
                  EnvTouchImpl(EnvTouchWrap([@ EXCEPT !.ranWith = env[s].arg], "thread", TRUE),
                               "thread", TRUE)]
    /\ invoked' = [invoked EXCEPT ![s] = zthread__proxy_entry_invokes(@)]
    /\ tpc' = [tpc EXCEPT ![s] = "running"]
    /\ UNCHANGED <<hstate, inner, joinable, movedFrom, mpc, cur, nspawn, effect, rc,
                   nativeJoins, nativeDetaches, badNative, last>>

\* run(): f() executes and returns; its write is effect[s]
CallableRun(s) ==
    /\ ProcessRuns
    /\ tpc[s] = "running"
    /\ env' = [env EXCEPT ![s] = EnvTouchImpl(@, "thread", TRUE)]
    /\ effect' = [effect EXCEPT ![s] = TRUE]
    /\ tpc' = [tpc EXCEPT ![s] = "returned"]
    /\ UNCHANGED <<hstate, inner, joinable, movedFrom, mpc, cur, nspawn, invoked, rc,
                   nativeJoins, nativeDetaches, badNative, last>>

\* run(): f() throws.  proxy_thunk has no handler and neither has
\* zthread__proxy_entry: the exception leaves the thread's start function,
\* std::terminate() is called; delete p and ZTHREAD_FREE(w) are not reached.
CallableThrow(s) ==
    /\ ProcessRuns
    /\ tpc[s] = "running"
    /\ env' = [env EXCEPT ![s] = EnvTouchImpl(@, "thread", TRUE)]
    /\ tpc' = [tpc EXCEPT ![s] = "threw"]
    /\ UNCHANGED <<hstate, inner, joinable, movedFrom, mpc, cur, nspawn, invoked,
                   effect, rc, nativeJoins, nativeDetaches, badNative, last>>

\* proxy_thunk: delete p
ProxyThunkDelete(s) ==
    /\ ProcessRuns
    /\ tpc[s] = "returned"
    /\ env' = [env EXCEPT ![s] = EnvFreeImpl(@, "thread", TRUE)]
    /\ tpc' = [tpc EXCEPT ![s] = "thunk_done"]
    /\ UNCHANGED <<hstate, inner, joinable, movedFrom, mpc, cur, nspawn, invoked,
                   effect, rc, nativeJoins, nativeDetaches, badNative, last>>

\* zthread__proxy_entry: ZTHREAD_FREE(w); return NULL
ProxyEntryFree(s) ==
    /\ ProcessRuns
    /\ tpc[s] = "thunk_done"
    /\ env' = [env EXCEPT ![s] = EnvFreeWrap(@, "thread", TRUE)]
    /\ tpc' = [tpc EXCEPT ![s] = "done"]
    /\ UNCHANGED <<hstate, inner, joinable, movedFrom, mpc, cur, nspawn, invoked,
                   effect, rc, nativeJoins, nativeDetaches, badNative, last>>

(***************************************************************************)
(* thread(), thread(thread&&), operator=(thread&&), ~thread().             *)
(***************************************************************************)
\* thread() : joinable(false) { inner = 0; }
DefaultCtor(h) ==
    /\ ProcessRuns
    /\ mpc = "ready"
    /\ NextFree(h)
    /\ hstate' = [hstate EXCEPT ![h] = "live"]
    /\ inner' = [inner EXCEPT ![h] = 0]
    /\ joinable' = [joinable EXCEPT ![h] = FALSE]
    /\ last' = LastRec("default", h, 0)
    /\ UNCHANGED <<movedFrom, mpc, cur, nspawn, env, tpc, invoked, effect, rc,
                   nativeJoins, nativeDetaches, badNative>>

\* the move constructor with other.joinable left as it was
thread_move_ctor_keeps_flag(in, jn, d, o) ==
    [inner |-> [in EXCEPT ![d] = in[o], ![o] = 0],
     joinable |-> [jn EXCEPT ![d] = jn[o]]]

\* thread(thread &&other) : inner(other.inner), joinable(other.joinable)
\* { other.joinable = false; other.inner = 0; }
thread_move_ctor(in, jn, d, o) ==
    [inner |-> [in EXCEPT ![d] = in[o], ![o] = 0],
     joinable |-> [jn EXCEPT ![d] = jn[o], ![o] = FALSE]]

MoveCtor(d, o) ==
    /\ ProcessRuns
    /\ mpc = "ready"
    /\ NextFree(d)
    /\ hstate[o] = "live"
    /\ hstate' = [hstate EXCEPT ![d] = "live"]
    /\ inner' = thread_move_ctor(inner, joinable, d, o).inner
    /\ joinable' = thread_move_ctor(inner, joinable, d, o).joinable
    /\ movedFrom' = [movedFrom EXCEPT ![o] = TRUE]
    /\ last' = LastRec("move_ctor", d, o)
    /\ UNCHANGED <<mpc, cur, nspawn, env, tpc, invoked, effect, rc, nativeJoins,
                   nativeDetaches, badNative>>

\* operator= without the check of the flag
thread_move_assign_never_terminates(j) == FALSE

\* operator=: if (joinable) std::terminate();
thread_move_assign_terminates(j) == j

\* operator= leaving the flag of other as it was
thread_move_assign_keeps_flag(in, jn, d, o) ==
    [inner |-> [in EXCEPT ![d] = in[o]], joinable |-> [jn EXCEPT ![d] = jn[o]]]

\* operator=: inner = other.inner; joinable = other.joinable;
\* other.joinable = false; the three assignments in order (other may be
\* *this)
thread_move_assign(in, jn, d, o) ==
    LET in1 == [in EXCEPT ![d] = in[o]]
        jn1 == [jn EXCEPT ![d] = jn[o]]
        jn2 == [jn1 EXCEPT ![o] = FALSE]
    IN [inner |-> in1, joinable |-> jn2]

MoveAssign(d, o) ==
    /\ ProcessRuns
    /\ mpc = "ready"
    /\ hstate[d] = "live"
    /\ hstate[o] = "live"
    /\ last' = LastRec("move_assign", d, o)
    /\ IF thread_move_assign_terminates(joinable[d])
       THEN /\ mpc' = "terminated"
            /\ UNCHANGED <<inner, joinable, movedFrom>>
       ELSE /\ inner' = thread_move_assign(inner, joinable, d, o).inner
            /\ joinable' = thread_move_assign(inner, joinable, d, o).joinable
            /\ movedFrom' = [movedFrom EXCEPT ![d] = FALSE, ![o] = TRUE]
            /\ mpc' = mpc
    /\ UNCHANGED <<hstate, cur, nspawn, env, tpc, invoked, effect, rc, nativeJoins,
                   nativeDetaches, badNative>>

\* the destructor without the check of the flag
thread_dtor_never_terminates(j) == FALSE

\* ~thread(): if (joinable) std::terminate();
thread_dtor_terminates(j) == j

Destroy(h) ==
    /\ ProcessRuns
    /\ mpc = "ready"
    /\ hstate[h] = "live"
    /\ last' = LastRec("destroy", h, 0)
    /\ IF thread_dtor_terminates(joinable[h])
       THEN /\ mpc' = "terminated"
            /\ UNCHANGED <<hstate, inner, movedFrom>>
       ELSE /\ mpc' = mpc
            /\ hstate' = [hstate EXCEPT ![h] = "dead"]
            /\ inner' = [inner EXCEPT ![h] = 0]
            /\ movedFrom' = [movedFrom EXCEPT ![h] = FALSE]
    /\ UNCHANGED <<joinable, cur, nspawn, env, tpc, invoked, effect, rc, nativeJoins,
                   nativeDetaches, badNative>>

(***************************************************************************)
(* thread::join, thread::detach, zthread_join, zthread_detach.             *)
(***************************************************************************)
\* one more call, counted up to 2
CountCall(f, id) == [f EXCEPT ![id] = IF @ < 2 THEN @ + 1 ELSE @]

\* zthread_join returns at once whatever the thread is doing
zthread_join_no_wait(id) == TRUE

\* zthread_join(t): pthread_join(t, NULL) returns when thread t has
\* terminated (at once with an error when t names no thread)
zthread_join(id) == (id \in Spawns /\ Started(id)) => tpc[id] = "done"

\* join(): if (joinable) { zthread_join(inner); ... }
thread_join_calls(j) == j

\* detach() calling zthread_detach whatever the flag is
thread_detach_calls_always(j) == TRUE

\* detach(): if (joinable) { zthread_detach(inner); ... }
thread_detach_calls(j) == j

\* join() is called: on a joinable handle the caller enters pthread_join
JoinCall(h) ==
    /\ ProcessRuns
    /\ mpc = "ready"
    /\ hstate[h] = "live"
    /\ IF thread_join_calls(joinable[h])
       THEN /\ mpc' = "in_join"
            /\ cur' = [h |-> h, s |-> inner[h]]
            /\ IF inner[h] \in Spawns
               THEN /\ nativeJoins' = CountCall(nativeJoins, inner[h])
                    /\ badNative' = badNative
               ELSE /\ badNative' = IF badNative < 2 THEN badNative + 1 ELSE badNative
                    /\ nativeJoins' = nativeJoins
            /\ last' = LastRec("join_call", h, 0)
       ELSE /\ last' = LastRec("join", h, 0)
            /\ UNCHANGED <<mpc, cur, nativeJoins, badNative>>
    /\ UNCHANGED <<hstate, inner, joinable, movedFrom, nspawn, env, tpc, invoked,
                   effect, rc, nativeDetaches>>

\* zthread_join returns; joinable = false; join() returns
JoinReturn ==
    /\ ProcessRuns
    /\ mpc = "in_join"
    /\ zthread_join(cur.s)
    /\ joinable' = [joinable EXCEPT ![cur.h] = FALSE]
    /\ last' = [last EXCEPT !.op = "join"]
    /\ mpc' = "ready"
    /\ cur' = [h |-> 0, s |-> 0]
    /\ UNCHANGED <<hstate, inner, movedFrom, nspawn, env, tpc, invoked, effect, rc,
                   nativeJoins, nativeDetaches, badNative>>

\* detach(): if (joinable) { zthread_detach(inner); joinable = false; }
Detach(h) ==
    /\ ProcessRuns
    /\ mpc = "ready"
    /\ hstate[h] = "live"
    /\ last' = LastRec("detach", h, 0)
    /\ IF thread_detach_calls(joinable[h])
       THEN /\ joinable' = [joinable EXCEPT ![h] = FALSE]
            /\ IF inner[h] \in Spawns
               THEN /\ nativeDetaches' = CountCall(nativeDetaches, inner[h])
                    /\ badNative' = badNative
               ELSE /\ badNative' = IF badNative < 2 THEN badNative + 1 ELSE badNative
                    /\ nativeDetaches' = nativeDetaches
       ELSE UNCHANGED <<joinable, nativeDetaches, badNative>>
    /\ UNCHANGED <<hstate, inner, movedFrom, mpc, cur, nspawn, env, tpc, invoked,
                   effect, rc, nativeJoins>>

Next ==
    \/ \E h \in Handles : SpawnNew(h) /\ UNCHANGED <<varsB, varsS, varsQ, varsO, varsJ, varsZ>>
    \/ SpawnMalloc /\ UNCHANGED <<varsB, varsS, varsQ, varsO, varsJ, varsZ>>
    \/ SpawnStart /\ UNCHANGED <<varsB, varsS, varsQ, varsO, varsJ, varsZ>>
    \/ SpawnFinish /\ UNCHANGED <<varsB, varsS, varsQ, varsO, varsJ, varsZ>>
    \/ \E s \in Spawns : ProxyInvoke(s) /\ UNCHANGED <<varsB, varsS, varsQ, varsO, varsJ, varsZ>>
    \/ \E s \in Spawns : CallableRun(s) /\ UNCHANGED <<varsB, varsS, varsQ, varsO, varsJ, varsZ>>
    \/ \E s \in Spawns : CallableThrow(s) /\ UNCHANGED <<varsB, varsS, varsQ, varsO, varsJ, varsZ>>
    \/ \E s \in Spawns : ProxyThunkDelete(s) /\ UNCHANGED <<varsB, varsS, varsQ, varsO, varsJ, varsZ>>
    \/ \E s \in Spawns : ProxyEntryFree(s) /\ UNCHANGED <<varsB, varsS, varsQ, varsO, varsJ, varsZ>>
    \/ \E h \in Handles : DefaultCtor(h) /\ UNCHANGED <<varsB, varsS, varsQ, varsO, varsJ, varsZ>>
    \/ \E d, o \in Handles : MoveCtor(d, o) /\ UNCHANGED <<varsB, varsS, varsQ, varsO, varsJ, varsZ>>
    \/ \E d, o \in Handles : MoveAssign(d, o) /\ UNCHANGED <<varsB, varsS, varsQ, varsO, varsJ, varsZ>>
    \/ \E h \in Handles : Destroy(h) /\ UNCHANGED <<varsB, varsS, varsQ, varsO, varsJ, varsZ>>
    \/ \E h \in Handles : JoinCall(h) /\ UNCHANGED <<varsB, varsS, varsQ, varsO, varsJ, varsZ>>
    \/ JoinReturn /\ UNCHANGED <<varsB, varsS, varsQ, varsO, varsJ, varsZ>>
    \/ \E h \in Handles : Detach(h) /\ UNCHANGED <<varsB, varsS, varsQ, varsO, varsJ, varsZ>>

Spec == Init /\ [][Next]_vars

\* the steps of the native thread of spawn s while its callable does not
\* throw: zthread__proxy_entry, proxy_thunk, run()
ThreadStep(s) ==
    ProxyInvoke(s) \/ CallableRun(s) \/ ProxyThunkDelete(s) \/ ProxyEntryFree(s)

\* Spec with a scheduler that lets every started thread run: a thread whose
\* next step stays possible takes it
ThreadFairness ==
    \A s \in Spawns :
        WF_vars(ThreadStep(s) /\ UNCHANGED <<varsB, varsS, varsQ, varsO, varsJ, varsZ>>)

\* the operations that make, run and end a thread and its envelopes: spawn,
\* the steps of the thread, move construction, join, detach and the
\* destructor (thread() and operator= touch no envelope and start, join and
\* detach no thread)
NextLifetime ==
    \/ \E h \in Handles : SpawnNew(h) /\ UNCHANGED <<varsB, varsS, varsQ, varsO, varsJ, varsZ>>
    \/ SpawnMalloc /\ UNCHANGED <<varsB, varsS, varsQ, varsO, varsJ, varsZ>>
    \/ SpawnStart /\ UNCHANGED <<varsB, varsS, varsQ, varsO, varsJ, varsZ>>
    \/ SpawnFinish /\ UNCHANGED <<varsB, varsS, varsQ, varsO, varsJ, varsZ>>
    \/ \E s \in Spawns : ProxyInvoke(s) /\ UNCHANGED <<varsB, varsS, varsQ, varsO, varsJ, varsZ>>
    \/ \E s \in Spawns : CallableRun(s) /\ UNCHANGED <<varsB, varsS, varsQ, varsO, varsJ, varsZ>>
    \/ \E s \in Spawns : CallableThrow(s) /\ UNCHANGED <<varsB, varsS, varsQ, varsO, varsJ, varsZ>>
    \/ \E s \in Spawns : ProxyThunkDelete(s) /\ UNCHANGED <<varsB, varsS, varsQ, varsO, varsJ, varsZ>>
    \/ \E s \in Spawns : ProxyEntryFree(s) /\ UNCHANGED <<varsB, varsS, varsQ, varsO, varsJ, varsZ>>
    \/ \E d, o \in Handles : MoveCtor(d, o) /\ UNCHANGED <<varsB, varsS, varsQ, varsO, varsJ, varsZ>>
    \/ \E h \in Handles : Destroy(h) /\ UNCHANGED <<varsB, varsS, varsQ, varsO, varsJ, varsZ>>
    \/ \E h \in Handles : JoinCall(h) /\ UNCHANGED <<varsB, varsS, varsQ, varsO, varsJ, varsZ>>
    \/ JoinReturn /\ UNCHANGED <<varsB, varsS, varsQ, varsO, varsJ, varsZ>>
    \/ \E h \in Handles : Detach(h) /\ UNCHANGED <<varsB, varsS, varsQ, varsO, varsJ, varsZ>>

SpecLifetimeFair == Init /\ [][NextLifetime]_vars /\ ThreadFairness

InitBank == BankInit /\ SyncInit /\ HandleInit /\ QueueInit /\ HandoffInit /\ JobsInit /\ SleepInit

SpecBank == InitBank /\ [][NextBank]_vars

SpecSync == Init /\ [][NextSync]_vars

SpecMisuse == Init /\ [][NextMisuse]_vars

SpecQueue == Init /\ [][NextQueue]_vars

SpecHandoff == Init /\ [][NextHandoff]_vars

SpecJobs == Init /\ [][NextJobs]_vars

SpecSleep == Init /\ [][NextSleep]_vars

\* SpecJobs with fair scheduling: main and each worker take their next step
\* when it is possible again and again
JobsFairness ==
    \A t \in JThreads :
        SF_vars(JStep(t) /\ UNCHANGED <<varsB, varsS, varsH, varsQ, varsO, varsZ>>)

SpecJobsFair == Init /\ [][NextJobs]_vars /\ JobsFairness

\* SpecHandoff with fair scheduling: main, the producer and the consumer
\* each take their next step when it is possible again and again
HandoffFairness ==
    /\ SF_vars(OMain /\ UNCHANGED <<varsB, varsS, varsH, varsQ, varsJ, varsZ>>)
    /\ SF_vars(OProducer /\ UNCHANGED <<varsB, varsS, varsH, varsQ, varsJ, varsZ>>)
    /\ SF_vars(OConsumer /\ UNCHANGED <<varsB, varsS, varsH, varsQ, varsJ, varsZ>>)

SpecHandoffFair == Init /\ [][NextHandoff]_vars /\ HandoffFairness

\* SpecQueue with fair scheduling: main and the worker each take their next
\* step when it is possible again and again (a thread blocked on the mutex
\* gets it when it is released again and again)
QueueFairness ==
    /\ SF_vars(QMain /\ UNCHANGED <<varsB, varsS, varsH, varsO, varsJ, varsZ>>)
    /\ SF_vars(QWorker /\ UNCHANGED <<varsB, varsS, varsH, varsO, varsJ, varsZ>>)

SpecQueueFair == Init /\ [][NextQueue]_vars /\ QueueFairness

\* SpecSync with fair scheduling: a thread that holds the mutex releases it
\* (by zmutex_unlock or by blocking in zcond_wait), and a woken thread for
\* which the mutex is free again and again acquires it
SyncFairness ==
    \A t \in SyncThreads :
        /\ WF_vars((SyncUnlock(t) \/ SyncWait(t)) /\ UNCHANGED <<varsB, varsH, varsQ, varsO, varsJ, varsZ>>)
        /\ SF_vars(SyncWaitReturn(t) /\ UNCHANGED <<varsB, varsH, varsQ, varsO, varsJ, varsZ>>)

SpecSyncFair == Init /\ [][NextSync]_vars /\ SyncFairness

(***************************************************************************)
(* Claims.                                                                 *)
(***************************************************************************)

\* C1: once main has joined all nbank threads, each of which made
\* MaxDeposits increments of balance (read, add 1, write back) between
\* mutex_lock and mutex_unlock of the one mutex, balance is exactly
\* nbank x MaxDeposits, whatever the interleaving was.
C1_FinalBalance == BankAllJoined => balance = nbank * MaxDeposits

\* C1 witness: the largest number of threads has been spawned and joined
C1_Witness == BankAllJoined /\ nbank = MaxBankThreads /\ balance > 0

\* C2: no two threads hold the mutex at once: at most one thread is between
\* its return from zmutex_lock (or from zcond_wait) and its next
\* zmutex_unlock (or its blocking in zcond_wait), and the mutex is locked
\* exactly while there is one.
SyncHolders == {t \in SyncThreads : spc[t] = "held"}

C2_MutualExclusion ==
    /\ Cardinality(SyncHolders) <= 1
    /\ mtx <=> SyncHolders # {}

\* C2 witness: one thread holds the mutex while another is inside
\* zmutex_lock and a third, woken from zcond_wait, is re-acquiring it
C2_Witness ==
    \E t, u, v \in SyncThreads :
        spc[t] = "held" /\ spc[u] = "lock" /\ spc[v] = "wake"

\* spawn number s has returned to its caller
SpawnReturned(s) ==
    /\ s <= nspawn
    /\ ~(mpc \in {"create_malloc", "create_start", "ctor_finish"} /\ cur.s = s)

\* C3: each envelope of a spawn (the impl_type object, the zthread__wrap
\* record) is allocated at most once and freed at most once; when the native
\* start succeeded it is freed by the new thread's proxy only, after the
\* callable has returned, and has been freed once the proxy has returned;
\* when the start failed it has been freed by the creating caller once the
\* spawn has returned.
C3_EnvelopeFreedOnce ==
    \A s \in Spawns :
        /\ env[s].implAlloc <= 1 /\ env[s].wrapAlloc <= 1
        /\ Len(env[s].implFreedBy) <= env[s].implAlloc
        /\ Len(env[s].wrapFreedBy) <= env[s].wrapAlloc
        /\ Started(s) =>
            /\ \A i \in DOMAIN env[s].implFreedBy : env[s].implFreedBy[i] = "thread"
            /\ \A i \in DOMAIN env[s].wrapFreedBy : env[s].wrapFreedBy[i] = "thread"
            /\ env[s].implFreedBy # <<>> => tpc[s] \in {"thunk_done", "done"}
            /\ env[s].wrapFreedBy # <<>> => tpc[s] = "done"
            /\ tpc[s] = "done" =>
                env[s].implFreedBy = <<"thread">> /\ env[s].wrapFreedBy = <<"thread">>
        /\ (SpawnReturned(s) /\ ~Started(s)) =>
            /\ env[s].implFreedBy = <<"caller">>
            /\ env[s].wrapAlloc = 1 => env[s].wrapFreedBy = <<"caller">>

\* C3 witness: a started thread's proxy has returned, both envelopes freed
C3_Witness ==
    \E s \in Spawns :
        /\ tpc[s] = "done"
        /\ env[s].implFreedBy = <<"thread">>
        /\ env[s].wrapFreedBy = <<"thread">>

\* C4: after the native start has succeeded the creating caller never
\* reads, writes or frees an envelope of that spawn, and no envelope is
\* read, written or freed by anyone after it has been freed.
C4_SingleOwner ==
    \A s \in Spawns : ~env[s].callerAfterStart /\ ~env[s].afterFree

\* C4 witness: the new thread has run and freed both envelopes while the
\* creating caller is still inside the constructor
C4_Witness ==
    /\ ProcessRuns
    /\ mpc = "ctor_finish"
    /\ tpc[cur.s] = "done"
    /\ env[cur.s].wrapFreedBy = <<"thread">>

\* C5: when a spawn has failed (no native thread was started), the callable
\* has not been and is never invoked, every envelope allocated for the spawn
\* has been freed by the time the spawn has returned, zthread__create_ptr
\* has returned an error code (Z_ENOMEM when the wrap record could not be
\* allocated, Z_ERR when the native start failed), and the handle the spawn
\* constructed is not joinable.
C5_FailedSpawn ==
    \A s \in Spawns :
        (SpawnReturned(s) /\ ~Started(s)) =>
            /\ invoked[s] = 0
            /\ Len(env[s].implFreedBy) = env[s].implAlloc
            /\ Len(env[s].wrapFreedBy) = env[s].wrapAlloc
            /\ rc[s] = (IF env[s].wrapAlloc = 0 THEN Z_ENOMEM ELSE Z_ERR)
            /\ (last.op = "spawn" /\ last.s = s) => ~joinable[last.h]

\* C5 witness: a spawn whose native start failed has returned
C5_Witness ==
    \E s \in Spawns :
        /\ last.op = "spawn" /\ last.s = s
        /\ ~Started(s)
        /\ env[s].wrapFreedBy = <<"caller">>

\* C6: for every live handle, when no operation is in progress, joinable is
\* true if and only if the handle's identifier names a native thread that
\* was started and has been neither joined nor detached.
C6_JoinableIff ==
    mpc = "ready" =>
        \A h \in Handles :
            hstate[h] = "live" => (joinable[h] <=> ValidTarget(inner[h]))

\* C7: when join, called on a joinable handle, has returned, the thread it
\* joined has run its callable to completion and returned from the proxy,
\* the callable's write is there, and the handle is not joinable.
C7_JoinWaits ==
    (last.op = "join" /\ last.preJoinable) =>
        /\ last.preInner \in Spawns
        /\ tpc[last.preInner] = "done"
        /\ effect[last.preInner]
        /\ ~joinable[last.h]

\* C7 witness: join on a joinable handle has returned
C7_Witness ==
    /\ last.op = "join" /\ last.preJoinable
    /\ ProcessRuns
    /\ mpc = "ready"
    /\ last.preInner \in Spawns /\ effect[last.preInner]

\* C8: join or detach called on a handle that is not joinable makes no
\* native call, returns without blocking, and leaves the handle's
\* identifier and flag as they were.
C8_NoopWhenNotJoinable ==
    (last.op \in {"join", "detach"} /\ ~last.preJoinable) =>
        /\ NativeCalls = last.preCalls
        /\ mpc = "ready"
        /\ inner[last.h] = last.preInner
        /\ ~joinable[last.h]

\* C8 witness: join called on a handle that is not joinable and whose
\* thread has been joined already
C8_Witness ==
    /\ last.op = "join" /\ ~last.preJoinable
    /\ last.preInner \in Spawns /\ nativeJoins[last.preInner] = 1
    /\ ~movedFrom[last.h]

\* C9: a handle that has been the source of a move (and has not been given
\* a thread by a move assignment since) is not joinable, and join, detach or
\* destruction of it makes no native call and does not terminate the
\* process.
C9_MovedFromIsInert ==
    /\ \A h \in Handles : (hstate[h] = "live" /\ movedFrom[h]) => ~joinable[h]
    /\ (last.op \in {"join", "detach", "destroy"} /\ last.wasMovedFrom) =>
        /\ NativeCalls = last.preCalls
        /\ mpc = "ready"

\* C9 witness: a handle whose thread was moved to another handle, which
\* still owns it, has been destroyed
C9_Witness ==
    /\ last.op = "destroy" /\ last.wasMovedFrom
    /\ last.preInner \in Spawns
    /\ \E d \in Handles : joinable[d] /\ inner[d] = last.preInner

\* C10: a completed move, by move construction or by move assignment, from
\* a handle that held the identifier of a started native thread to another
\* handle has given the destination the identifier and the flag the source
\* held, and has left the source not joinable with the null identifier.
C10_MoveTransfers ==
    (/\ last.op \in {"move_ctor", "move_assign"}
     /\ ProcessRuns
     /\ last.h # last.src
     /\ last.srcInner \in Spawns /\ Started(last.srcInner)) =>
        /\ inner[last.h] = last.srcInner
        /\ joinable[last.h] = last.srcJoinable
        /\ ~joinable[last.src]
        /\ inner[last.src] = 0

\* C11: the destructor of a handle whose flag is true terminates the
\* process (the handle is not destroyed, no native call is made); the
\* destructor of a handle whose flag is false makes no native call, does not
\* terminate and ends the handle's life.  Hence, while the process has not
\* been terminated, every started thread whose spawn has returned and that
\* has been neither joined nor detached still has a live joinable handle
\* holding its identifier.
C11_DestroyJoinableTerminates ==
    /\ (last.op = "destroy" /\ last.preJoinable) =>
        /\ mpc = "terminated"
        /\ hstate[last.h] = "live"
        /\ NativeCalls = last.preCalls
    /\ (last.op = "destroy" /\ ~last.preJoinable) =>
        /\ mpc = "ready"
        /\ hstate[last.h] = "dead"
        /\ NativeCalls = last.preCalls
    /\ mpc # "terminated" =>
        \A s \in Spawns :
            (SpawnReturned(s) /\ Started(s)
                /\ nativeJoins[s] = 0 /\ nativeDetaches[s] = 0) =>
                \E h \in Handles :
                    hstate[h] = "live" /\ joinable[h] /\ inner[h] = s

\* C11 witness: the handle that owned a running thread, neither joined nor
\* detached, has been destroyed and the process is terminated
C11_Witness ==
    /\ last.op = "destroy" /\ last.preJoinable
    /\ mpc = "terminated"
    /\ last.preInner \in Spawns /\ Started(last.preInner)
    /\ nativeJoins[last.preInner] = 0 /\ nativeDetaches[last.preInner] = 0

\* C12: zcond_wait, called by the holder of the mutex, returns only with the
\* calling thread holding the mutex again: a thread that has returned from
\* zcond_wait (woken by a signal, by a broadcast or spuriously) and has not
\* released the mutex since is its one holder, and the mutex is locked.
C12_WaitReturnsHolding ==
    \A t \in SyncThreads :
        (spc[t] = "held" /\ sfrom[t] = "wait") => (mtx /\ SyncHolders = {t})

\* C12 witness: a thread has returned from zcond_wait while another thread,
\* woken too, is still inside zcond_wait and a third is inside zmutex_lock
C12_Witness ==
    \E t, u, v \in SyncThreads :
        /\ spc[t] = "held" /\ sfrom[t] = "wait"
        /\ spc[u] = "wake"
        /\ spc[v] = "lock"

\* C13: every thread that was blocked in zcond_wait when zcond_broadcast was
\* called eventually returns from zcond_wait, when scheduling is fair and
\* each thread that acquires the mutex later releases it.
C13_BroadcastWakesAll ==
    \A t \in SyncThreads : (t \in pending) ~> (t \notin pending)

\* C13 witness: a broadcast found every thread but the caller blocked in
\* zcond_wait; one of them has returned since, the others have not yet
C13_Witness ==
    /\ Cardinality(pending) = NSync - 2
    /\ \E t \in SyncThreads : spc[t] = "held" /\ sfrom[t] = "wait"
    /\ \A t \in pending : spc[t] = "wake"
    /\ waiters = {}

AllItems == [i \in 1..LastItem |-> i]

IsPrefix(s, t) == Len(s) <= Len(t) /\ \A i \in 1..Len(s) : s[i] = t[i]

\* C15: in examples/cpp/example_2.cpp the worker processes a prefix of
\* 1,2,..,LastItem at every moment (each item once, in the order pushed);
\* when its loop has ended it has processed all of them and the queue is
\* empty; and, under fair scheduling, worker.join() in main eventually
\* returns, whatever the interleaving and the spurious wakeups were.
C15_ConsumerReceivesAll ==
    /\ [](/\ IsPrefix(received, AllItems)
          /\ qpc["worker"] \in {"exit", "done"} =>
                (received = AllItems /\ items = <<>> /\ finished)
          /\ qpc["main"] = "done" => qpc["worker"] = "done")
    /\ <>(qpc["main"] = "done")

\* C15 witness: join has returned in main; the worker processed every item
C15_Witness ==
    /\ qpc["main"] = "done"
    /\ qpc["worker"] = "done"
    /\ received = AllItems
    /\ items = <<>>

\* the thread is inside cv.wait(mtx)
QInWait(t) == qpc[t] \in {"pop_wait", "pop_woken"}

\* C16 as stated: while a lock_guard is alive its thread holds the mutex at
\* every instant, also in a scope that calls cv.wait on it, and a guard
\* whose scope has been left has unlocked the mutex exactly once.
C16_GuardHoldsAlways ==
    \A t \in QThreads :
        /\ guard[t].st = "alive" => qmtx = t
        /\ guard[t].st = "ended" => guard[t].unlocks = 1

\* C16 amended: while a lock_guard is alive its thread holds the mutex at
\* every instant at which the thread is not inside cv.wait on that mutex
\* (inside the wait the guard is alive and the thread does not hold it); the
\* guard makes no unlock before its destruction and exactly one at it, on
\* every path that leaves the scope, the early return of pop included.
C16_GuardHoldsOutsideWait ==
    \A t \in QThreads :
        /\ (guard[t].st = "alive" /\ ~QInWait(t)) => qmtx = t
        /\ QInWait(t) => (guard[t].st = "alive" /\ qmtx # t)
        /\ guard[t].st = "alive" => guard[t].unlocks = 0
        /\ guard[t].st = "ended" => guard[t].unlocks = 1

\* C16 witness: the worker has left pop by the early return; its guard has
\* unlocked the mutex once
C16_Witness ==
    /\ qpc["worker"] = "exit"
    /\ guard["worker"] = [st |-> "ended", unlocks |-> 1]
    /\ qmtx = "none"

\* C17: when the callable of a spawn has failed (an exception left it), the
\* envelopes of the spawn are deallocated all the same: for each of the two
\* the number of deallocations equals the number of allocations.
C17_EnvelopeFreedOnFailure ==
    \A s \in Spawns :
        tpc[s] = "threw" =>
            /\ Len(env[s].implFreedBy) = env[s].implAlloc
            /\ Len(env[s].wrapFreedBy) = env[s].wrapAlloc

\* C18: a call that breaks the contract of the mutex (an unlock by a thread
\* that does not hold it, a lock by the thread that holds it) leaves the
\* process terminated: after it the program neither continues nor stays
\* blocked.
C18_MutexMisuseIsFatal == smisuse # "none" => mpc = "terminated"

\* C19: once zthread__create_ptr has returned for a spawn, its return code
\* is Z_OK if and only if the native thread was started; it is Z_ENOMEM when
\* the wrap record was not allocated, and then pthread_create was not called
\* and *t was not written; it is Z_ERR when pthread_create failed, and then
\* the wrap record has been freed by the caller; and pthread_create is
\* called at most once for a spawn, exactly once unless the code is Z_ENOMEM.
C19_CreateReturnCode ==
    \A s \in Spawns :
        /\ env[s].startAttempts <= 1
        /\ Started(s) => rc[s] = Z_OK
        /\ rc[s] \in {Z_OK, Z_ERR, Z_ENOMEM} =>
            /\ rc[s] = Z_OK <=> Started(s)
            /\ rc[s] = Z_ENOMEM <=> env[s].wrapAlloc = 0
            /\ rc[s] = Z_ENOMEM => env[s].startAttempts = 0
            /\ rc[s] # Z_ENOMEM => env[s].startAttempts = 1
            /\ rc[s] = Z_ERR => env[s].wrapFreedBy = <<"caller">>
            /\ rc[s] = Z_OK => (\A i \in DOMAIN env[s].wrapFreedBy :
                                   env[s].wrapFreedBy[i] # "caller")
        /\ (mpc = "ctor_finish" /\ cur.s = s) =>
            /\ rc[s] \in {Z_OK, Z_ERR, Z_ENOMEM}
            /\ rc[s] = Z_ENOMEM => inner[cur.h] = last.preInner
            /\ rc[s] = Z_OK => inner[cur.h] = s

\* C19 witness: zthread__create_ptr has just returned Z_ERR: pthread_create
\* was called once and failed, the wrap record has been freed
C19_Witness ==
    /\ mpc = "ctor_finish"
    /\ rc[cur.s] = Z_ERR
    /\ env[cur.s].startAttempts = 1
    /\ env[cur.s].wrapFreedBy = <<"caller">>

\* C20: the callable of a spawn has been invoked once as soon as the new
\* thread's proxy has passed its call and never otherwise (never by the
\* creating thread, never for a spawn that failed), with the argument
\* stored in the wrap record at creation; the impl object is deleted after
\* the callable has returned, the wrap record freed after that, the proxy
\* returns last; nothing is read from an envelope after it has been freed.
C20_InvokedOnceInOrder ==
    \A s \in Spawns :
        /\ invoked[s] = (IF tpc[s] \in {"none", "entry"} THEN 0 ELSE 1)
        /\ invoked[s] >= 1 => (env[s].ranWith = s /\ env[s].arg = s)
        /\ Started(s) =>
            /\ env[s].implFreedBy # <<>> =>
                (effect[s] /\ tpc[s] \in {"thunk_done", "done"})
            /\ env[s].wrapFreedBy # <<>> =>
                (env[s].implFreedBy # <<>> /\ tpc[s] = "done")
            /\ tpc[s] \in {"thunk_done", "done"} => env[s].implFreedBy = <<"thread">>
            /\ tpc[s] = "done" => env[s].wrapFreedBy = <<"thread">>
        /\ ~env[s].afterFree

\* C20 witness: the proxy has deleted the impl object after the callable
\* returned and has not yet freed the wrap record
C20_Witness ==
    \E s \in Spawns :
        /\ tpc[s] = "thunk_done"
        /\ invoked[s] = 1 /\ effect[s] /\ env[s].ranWith = s
        /\ env[s].implFreedBy = <<"thread">> /\ env[s].wrapFreedBy = <<>>

\* C21: zcond_wait releases the mutex and registers the caller in one step:
\* at every moment the threads blocked in zcond_wait are exactly the
\* registered waiters and none of them holds the mutex, so a zcond_signal or
\* zcond_broadcast made while a thread is blocked in the wait finds it
\* registered and wakes a thread (signal) or all of them (broadcast).
C21_WaitIsAtomic ==
    /\ \A t \in SyncThreads : spc[t] = "wait" <=> t \in waiters
    /\ \A t \in waiters : t \notin SyncHolders
    /\ (waiters # {} /\ SyncHolders = {}) => ~mtx
    /\ (slast.op \in {"signal", "broadcast"} /\ slast.pre # {}) =>
        \E w \in slast.pre : spc[w] = "wake"

\* C21 witness: while one thread is blocked in zcond_wait another thread,
\* which acquired the mutex by zmutex_lock, has made a signal that found
\* the waiter registered and woke it
C21_Witness ==
    \E t, w \in SyncThreads :
        /\ spc[t] = "held" /\ sfrom[t] = "lock"
        /\ slast = [op |-> "signal", pre |-> {w}]
        /\ spc[w] = "wake"

\* C22: in examples/c/example_2.c the consumer is past its loop only when
\* is_ready is 1 and data is HandoffValue, so the value it prints is
\* HandoffValue; main is past its joins only when both threads have
\* returned; and, under fair scheduling, the consumer eventually prints
\* HandoffValue and main returns, whatever the interleaving (the signal made
\* before the consumer waits, spurious wakeups).
C22_HandoffCompletes ==
    /\ [](/\ oread \in {-1, HandoffValue}
          /\ ocons \in {"read", "unlock", "free", "done"} =>
                (oready = 1 /\ odata = HandoffValue)
          /\ ocons \in {"unlock", "free", "done"} => oread = HandoffValue
          /\ omain \in {"mutex_destroy", "cond_destroy", "done"} =>
                (ProducerDone /\ ocons = "done"))
    /\ <>(omain = "done" /\ oread = HandoffValue)

\* C22 witness: main has joined both threads and returned; the consumer
\* printed HandoffValue
C22_Witness ==
    /\ omain = "done"
    /\ ProducerDone /\ ocons = "done"
    /\ oread = HandoffValue
    /\ ~omtx


\* the number of jobs main has pushed
JPushed == IF jpc["main"] \in {"p_signal", "p_unlock", "sleep"} THEN ji ELSE ji - 1

(* C23: in the job queue of example_3.c, in every reachable state count is   *)
(* between 0 and MAX_JOBS and equals the number of jobs pushed and not yet   *)
(* taken, the slots from head on hold exactly those jobs in the order they   *)
(* were pushed, no slot was written again before its job was taken, and the  *)
(* jobs taken are 1, 2, 3, ... in that order, each one once, two workers     *)
(* never holding the same job.                                               *)
C23_QueueBoundedFifo ==
    /\ jcount \in 0..MAX_JOBS
    /\ jcount = JPushed - Len(jtaken)
    /\ jcount = Cardinality(jocc)
    /\ jocc = {(jhead + k) % MAX_JOBS : k \in 0..(jcount - 1)}
    /\ jtail = (jhead + jcount) % MAX_JOBS
    /\ \A k \in 0..(jcount - 1) : jitems[(jhead + k) % MAX_JOBS] = Len(jtaken) + k + 1
    /\ jlost = {}
    /\ jtaken = [k \in 1..Len(jtaken) |-> k]
    /\ \A w \in JWorkers :
        jjob[w] # 0 => \E k \in 1..Len(jtaken) : jtaken[k] = jjob[w]
    /\ (jjob["w1"] # 0 \/ jjob["w2"] # 0) => jjob["w1"] # jjob["w2"]

\* the queue is full again after a slot was used a second time
C23_Witness == jcount = MAX_JOBS /\ JPushed > MAX_JOBS /\ Len(jtaken) > 0


(* C24: with fair scheduling of main and the two workers, the job queue of   *)
(* example_3.c never gets stuck: a producer blocked on has_space with the    *)
(* queue full is always woken later, main eventually returns from both       *)
(* joins, a worker that left its loop saw the queue empty and done set, and  *)
(* when main is through every job was taken.                                 *)
C24_JobsNoDeadlock ==
    /\ (jpc["main"] = "p_wait") ~> (jpc["main"] = "p_woken")
    /\ [](jpc["main"] = "p_wait" => jcount = MAX_JOBS \/ \E w \in JWorkers : jpc[w] \in {"w_signal", "w_unlock"})
    /\ [](\A w \in JWorkers : jpc[w] = "done" => jcount = 0 /\ jdone)
    /\ [](jpc["main"] = "done" =>
            /\ \A w \in JWorkers : jpc[w] = "done"
            /\ Len(jtaken) = NJobs)
    /\ <>(jpc["main"] = "done")

\* the producer is blocked on the full queue while a woken worker has not
\* yet got the lock back
C24_Witness ==
    /\ jpc["main"] = "p_wait"
    /\ jcount = MAX_JOBS
    /\ \E w \in JWorkers : jpc[w] = "w_woken"


(* C25: for every non-negative int ms, a call of zthread_sleep(ms), in the   *)
(* nanosleep-based and in the usleep-based version, asks the operating       *)
(* system for exactly ms milliseconds, ms / 1000 seconds and (ms % 1000) *   *)
(* 1000000 nanoseconds, the latter within 0..999999999, and no int           *)
(* computation of the call overflows.                                        *)
C25_SleepExact ==
    zver # "none" =>
        /\ zreq.requested
        /\ ~zreq.overflow
        /\ zreq.sec = zms \div 1000
        /\ zreq.nsec = (zms % 1000) * 1000000
        /\ zreq.nsec \in 0..999999999


\* the live handles whose flag is set and whose identifier is id
JoinableFor(id) == {h \in Handles : hstate[h] = "live" /\ joinable[h] /\ inner[h] = id}

(* C26: whatever moves, joins and detaches were made, at most one live       *)
(* handle is joinable at a time, for each native thread at most one native   *)
(* join or detach was made in total, none was made on an identifier that     *)
(* names no thread, and a joinable handle names a started thread on which    *)
(* none was made yet (except the handle whose join is in progress).          *)
C26_OneJoinOrDetach ==
    /\ \A id \in Ids : Cardinality(JoinableFor(id)) <= 1
    /\ \A s \in Spawns : nativeJoins[s] + nativeDetaches[s] <= 1
    /\ \A s \in Spawns : nativeJoins[s] + nativeDetaches[s] > 0 => Started(s)
    /\ badNative = 0
    /\ \A h \in Handles :
        (hstate[h] = "live" /\ joinable[h]) =>
            \/ ValidTarget(inner[h])
            \/ mpc = "in_join" /\ cur.h = h /\ nativeJoins[inner[h]] = 1
                /\ nativeDetaches[inner[h]] = 0

\* a joinable handle was moved and the native join or detach was then made
\* through the handle it was moved to
C26_Witness ==
    /\ last.op \in {"join", "detach"}
    /\ last.preJoinable
    /\ \E o \in Handles : o # last.h /\ hstate[o] = "live" /\ movedFrom[o]
    /\ NativeCalls = 1


(* C27: a move assignment into a handle whose flag is true, the              *)
(* self-assignment of a joinable handle included, terminates the process     *)
(* with both handles as they were and no native call made; a move            *)
(* assignment after which the process runs found the flag of its             *)
(* destination false, and after it every started thread whose spawn has      *)
(* returned and that was neither joined nor detached is still named by a     *)
(* live joinable handle.                                                     *)
C27_MoveAssignJoinableTerminates ==
    /\ (last.op = "move_assign" /\ last.preJoinable) =>
        /\ mpc = "terminated"
        /\ hstate[last.h] = "live"
        /\ inner[last.h] = last.preInner
        /\ joinable[last.h]
        /\ inner[last.src] = last.srcInner
        /\ joinable[last.src] = last.srcJoinable
        /\ NativeCalls = last.preCalls
    /\ (last.op = "move_assign" /\ mpc # "terminated") =>
        /\ ~last.preJoinable
        /\ \A s \in Spawns :
            (SpawnReturned(s) /\ ValidTarget(s)) =>
                \E h \in Handles : hstate[h] = "live" /\ joinable[h] /\ inner[h] = s

\* a joinable handle whose thread was neither joined nor detached has been
\* move-assigned to itself and the process is terminated
C27_Witness ==
    /\ last.op = "move_assign" /\ last.preJoinable
    /\ last.h = last.src
    /\ mpc = "terminated"
    /\ ValidTarget(last.preInner)


\* both envelopes of spawn s have been deallocated, by the thread it started
EnvelopesFreed(s) ==
    /\ env[s].implFreedBy = <<"thread">>
    /\ env[s].wrapFreedBy = <<"thread">>

====
